---- MODULE Spec2Model ----
(***************************************************************************)
(* CellWay route optimisation back end.                                    *)
(*                                                                         *)
(*   Spec        one GetRoute* request: the primary provider (GraphHopper),*)
(*               the fallback decision, the secondary provider (OSRM) and  *)
(*               the tail of _get_optimized_route.                         *)
(*   SpecSelect  _select_optimized_routes and the tail of                  *)
(*               _get_optimized_route as functions of their arguments.     *)
(*                                                                         *)
(* Durations are kept in milliseconds (GraphHopper's unit, divided by 1000 *)
(* by the parser) and average signals as exact fractions scaled by         *)
(* SigScale, so the model computes with the rationals where Python         *)
(* computes with floats.                                                   *)
(***************************************************************************)
EXTENDS Integers, Sequences, FiniteSets, TLC

VARIABLES
    pc,             \* position of the request: idle, graphhopper, osrm, done
    keyConfigured,  \* Config.GRAPHHOPPER_KEY is set
    req,            \* the request: optimisation type and great-circle distance
    calls,          \* provider functions invoked, in order
    http,           \* network requests issued, in order
    ghResult,       \* what _calculate_graphhopper_routes gave
    osrmResult,     \* what _calculate_osrm_route gave
    altResult,      \* what _calculate_route_with_fallback returned
    outcome,        \* what get_route_* gave its caller
    httpResponse,   \* what calculate_route answered over HTTP
    selPc,          \* SpecSelect: input, selected, optimized
    inRoutes,       \* SpecSelect: alternative_routes
    inTowers,       \* SpecSelect: towers_in_area
    selScored,      \* routes_with_scores
    selBest,        \* the best candidate per criterion, before diversity
    selFinal,       \* final_route_selection
    selResult,      \* the dictionary _select_optimized_routes returns
    sigPc,          \* SpecSignal: input, done
    sigTowers,      \* SpecSignal: towers, each with its distance from the point
    sigResult,      \* what calculate_signal_strength returned
    djPc,           \* SpecPath: input, running, done
    djGraph,        \* graph
    djStart,        \* start_node
    djEnd,          \* end_node
    djSetting,      \* towers given or not, signal_weight, node_signals
    djDistances,    \* distances
    djPrevious,     \* previous
    djVisited,      \* visited
    djPq,           \* pq
    djPopped,       \* the entry the last iteration popped, and whether stale
    djResult,       \* what dijkstra_with_signal returned
    road_network_cache, \* the module's dictionary: cache key to graph
    cacheWrites,    \* the assignments to road_network_cache, in order
    graphsFetched,  \* how many graph objects the source has delivered
    rnPc,           \* per thread: idle, fetching, done
    rnRequested,    \* per thread: the box get_road_network was called with
    rnBox,          \* per thread: the box of the innermost frame
    rnRetry,        \* per thread: current_retry of the innermost frame
    rnTimeout,      \* per thread: timeout of the innermost frame
    rnDepth,        \* per thread: recursive calls below the first frame
    rnFetchCount,   \* per thread: the network fetches of the call so far
    rnPrevFetch,    \* per thread: the fetch before the one in flight
    rnResult,       \* per thread: what get_road_network returned
    rnPath,         \* per thread: what dijkstra_with_signal gave on the grid
    usNow,          \* SpecUsers: datetime.utcnow(), in minutes
    usUser,         \* the document of the registered account in users_collection
    usIssued,       \* how many reset tokens secrets.token_urlsafe has produced
    usHistory,      \* failed logins since the last success, tokens used and retired
    usLast,         \* the last call of the auth routes and what it returned
    srNow,          \* SpecRoutes: datetime.utcnow()
    srRoutes,       \* the documents of routes_collection
    srInserted,     \* how many documents insert_one has been given
    srLast,         \* the last save_route call and what it returned
    ctPc,           \* SpecCells: input, done
    ctBox,          \* min_lat, min_lng, max_lat, max_lng
    ctFile,         \* the file at _CSV_PATH
    ctResult,       \* what get_cell_towers gave its caller
    twPc,           \* SpecTowers: input, done
    twRoute,        \* the route whose towers are looked for
    twArea,         \* towers_in_area
    twResult        \* what find_towers_along_route returned

flowVars == <<pc, keyConfigured, req, calls, http, ghResult, osrmResult, altResult>>
selVars == <<selPc, inRoutes, inTowers, selScored, selBest, selFinal, selResult>>
sigVars == <<sigPc, sigTowers, sigResult>>
djInputs == <<djGraph, djStart, djEnd, djSetting>>
djLocals == <<djDistances, djPrevious, djVisited, djPq>>
djVars == <<djPc, djInputs, djLocals, djPopped, djResult>>
cacheVars == <<road_network_cache, cacheWrites, graphsFetched>>
rnFrame == <<rnBox, rnRetry, rnTimeout, rnDepth>>
rnFetches == <<rnFetchCount, rnPrevFetch>>
rnVars == <<cacheVars, rnPc, rnRequested, rnFrame, rnFetches, rnResult, rnPath>>
svcVars == <<sigVars, djVars, rnVars>>
towerVars == <<twPc, twRoute, twArea, twResult>>
cellVars == <<ctPc, ctBox, ctFile, ctResult>>
userVars == <<usNow, usUser, usIssued, usHistory, usLast>>
routeVars == <<srNow, srRoutes, srInserted, srLast>>
appVars == <<towerVars, cellVars, userVars, routeVars>>
vars == <<flowVars, outcome, httpResponse, selVars, svcVars, appVars>>

\* ------------------------------------------------------------------ bounds
MaxRoutes == 3
MaxTowersNear == 2
MaxEdges == 3
RecursionLimit == 3
MaxAreaTowers == 240
MaxDatasetRows == 501
MaxTokens == 2
MaxSaves == 6
MaxClock == 3

\* --------------------------------------------------------------- constants
LONG_ROUTE_THRESHOLD_KM == 400
MAX_TOWERS_ALONG_ROUTE == 200
MAX_TOWERS_FROM_CSV == 500
MAX_LOGIN_ATTEMPTS == 7
LOCKOUT_DURATION_MINUTES == 15
RESET_TOKEN_MINUTES == 60
MAX_SAVED_ROUTES == 3

\* The clock moves in steps longer than a lockout and stops once a reset
\* token has expired; the counter of failed logins stops one past the
\* threshold.
TickMinutes == 2 * LOCKOUT_DURATION_MINUTES
MaxTime == RESET_TOKEN_MINUTES + TickMinutes
MaxAttempts == MAX_LOGIN_ATTEMPTS + 1
MinMockTowers == 30
MaxMockTowers == 80
MinMockSignal == -115
MaxMockSignal == -65
MinAssignedSignal == -110
MaxAssignedSignal == -70
DurationUnitsPerSecond == 1000
DefaultSignal == -120
grid_size == 10
max_retries == 3

OptimizationTypes == {"fastest", "cell_coverage", "balanced"}

\* Python's None, and the placeholder of a value not produced yet.
None == [none |-> TRUE]
NoResult == [kind |-> "none", code |-> "", message |-> "", routes |-> <<>>]

Max(a, b) == IF a >= b THEN a ELSE b
Min(a, b) == IF a <= b THEN a ELSE b

RECURSIVE Factorial(_)
Factorial(n) == IF n <= 1 THEN 1 ELSE n * Factorial(n - 1)

RECURSIVE SumSignals(_)
SumSignals(ts) ==
    IF ts = <<>> THEN 0 ELSE Head(ts).averageSignal + SumSignals(Tail(ts))

\* ------------------------------------------------------------------ inputs
\* Durations in milliseconds: two candidates half a second apart, one far off.
Durations == {600000, 600500, 700000}

\* The towers of the area. Every tower record carries averageSignal.
TowerCatalogue ==
    << [id |-> 1, averageSignal |-> -90],
       [id |-> 2, averageSignal |-> -70],
       [id |-> 3, averageSignal |-> -110] >>

\* The sets of towers (by id) that can lie within reach of one route.
NearSets == {{}, {1}, {2}, {1, 3}, {1, 2, 3}}

\* Average signals are held as avg * SigScale, an integer for every tower count.
SigScale == Factorial(Len(TowerCatalogue))

\* A parsed route: its duration, whether its geometry has coordinates (a
\* parsed route has) and, standing for them, the towers the geometric
\* filter finds near it.
RouteSet(nears) == [duration : Durations, near : nears, coordinates : {TRUE}]

RECURSIVE RouteLists(_, _)
RouteLists(n, nears) ==
    IF n = 0 THEN {<<>>}
    ELSE LET shorter == RouteLists(n - 1, nears)
         IN  shorter \cup
             {Append(l, r) : l \in {s \in shorter : Len(s) = n - 1},
                             r \in RouteSet(nears)}

\* --------------------------------------------------------- tower_service.py
\* utils.geometry.find_towers_near_route_shapely: the towers within
\* max_distance_meters of the route, sorted by position along it.
find_towers_near_route_shapely(route, towers_in_area) ==
    SelectSeq(towers_in_area, LAMBDA t : t.id \in route.near)

\* floor(log2(x)) for a whole number x >= 1.
RECURSIVE FloorLog2(_)
FloorLog2(x) == IF x < 2 THEN 0 ELSE 1 + FloorLog2(x \div 2)

\* 2**k modulo 25.
RECURSIVE PowerOfTwoMod25(_)
PowerOfTwoMod25(k) == IF k = 0 THEN 1 ELSE (2 * PowerOfTwoMod25(k - 1)) % 25

RECURSIVE PowerOfTwo(_)
PowerOfTwo(k) == IF k = 0 THEN 1 ELSE 2 * PowerOfTwo(k - 1)

\* Mutant: the index in exact arithmetic.
float_index_exact(i, n) == (i * n) \div MAX_TOWERS_ALONG_ROUTE

\* int(i * (n / 200)) of line 128 in IEEE double arithmetic, for n > 200 and
\* 0 <= i < 200. n / 200 = n / (8 * 25) is rounded to 53 bits: with
\* e = floor(log2(n / 200)) the quotient n * 2**(49 - e) / 25 leaves the
\* remainder r, and the double is below n / 200 by r / 25 units of its last
\* place when 0 < r <= 12 (it is exact or above otherwise). The product with
\* i is rounded again; it can fall below a whole number m = i * n / 200 only
\* when the shortfall i * r / 25 * 2**(e - 52) is more than half the distance
\* 2**(floor(log2(m - 1)) - 52) of the doubles below m. A product that is
\* not whole is at least 1 / 200 off the next whole number and truncates
\* as the exact one does.
float_index(i, n) ==
    LET m == (i * n) \div MAX_TOWERS_ALONG_ROUTE
        e == FloorLog2(n \div MAX_TOWERS_ALONG_ROUTE)
        r == ((n % 25) * PowerOfTwoMod25(49 - e)) % 25
    IN  IF (i * n) % MAX_TOWERS_ALONG_ROUTE # 0 \/ m < 2 \/ r = 0 \/ r >= 13 THEN m
        ELSE IF 2 * i * r * PowerOfTwo(e) > 25 * PowerOfTwo(FloorLog2(m - 1))
        THEN m - 1
        ELSE m

\* Mutant: the first 200 towers are kept.
sample_towers_truncated(nearby_towers) ==
    [i \in 1..MAX_TOWERS_ALONG_ROUTE |-> nearby_towers[i]]

\* Lines 128-129: indices = [int(i * (n / cap)) for i in range(cap)].
sample_towers(nearby_towers) ==
    LET n == Len(nearby_towers)
    IN  [i \in 1..MAX_TOWERS_ALONG_ROUTE |-> nearby_towers[float_index(i - 1, n) + 1]]

\* Mutant: the towers of the area are sampled, not the retained ones.
find_towers_along_route_unfiltered(route, towers_in_area) ==
    IF ~route.coordinates \/ towers_in_area = <<>> THEN <<>>
    ELSE IF Len(towers_in_area) > MAX_TOWERS_ALONG_ROUTE
         THEN sample_towers(towers_in_area)
         ELSE find_towers_near_route_shapely(route, towers_in_area)

\* Lines 103-134.
find_towers_along_route(route, towers_in_area) ==
    IF ~route.coordinates \/ towers_in_area = <<>> THEN <<>>
    ELSE LET nearby_towers == find_towers_near_route_shapely(route, towers_in_area)
         IN  IF Len(nearby_towers) > MAX_TOWERS_ALONG_ROUTE
             THEN sample_towers(nearby_towers)
             ELSE nearby_towers

\* ------------------------------------------------- _select_optimized_routes
\* Lines 524-546: one entry per candidate, index as enumerate() gives it.
route_entry(route, index, towers_in_area) ==
    LET towers_along_route == find_towers_along_route(route, towers_in_area)
        tower_count == Len(towers_along_route)
    IN  [route |-> route,
         towers |-> towers_along_route,
         tower_count |-> tower_count,
         avg_signal |-> IF tower_count > 0
                        THEN (SumSignals(towers_along_route) * SigScale) \div tower_count
                        ELSE DefaultSignal * SigScale,
         duration |-> route.duration,
         index |-> index]

SeqMin(s) == CHOOSE x \in {s[i] : i \in DOMAIN s} : \A i \in DOMAIN s : x <= s[i]
SeqMax(s) == CHOOSE x \in {s[i] : i \in DOMAIN s} : \A i \in DOMAIN s : x >= s[i]

\* Lines 559-561: max(1, max_duration - min_duration), one second being
\* DurationUnitsPerSecond units.
duration_range(entries) ==
    LET ds == [i \in DOMAIN entries |-> entries[i].duration]
    IN  Max(1 * DurationUnitsPerSecond, SeqMax(ds) - SeqMin(ds))

\* Lines 563-565: max(1, max_signal - min_signal), in units of 1/SigScale dBm.
signal_range(entries) ==
    LET ss == [i \in DOMAIN entries |-> entries[i].avg_signal]
    IN  Max(1 * SigScale, SeqMax(ss) - SeqMin(ss))

\* Mutant: the duration score without the inversion "1.0 -".
norm_duration_not_inverted(entry, entries) ==
    LET ds == [i \in DOMAIN entries |-> entries[i].duration]
        dr == duration_range(entries)
    IN  Max(0, Min(dr, entry.duration - SeqMin(ds)))

\* Line 569, as a numerator over duration_range.
norm_duration(entry, entries) ==
    LET ds == [i \in DOMAIN entries |-> entries[i].duration]
        dr == duration_range(entries)
    IN  dr - Max(0, Min(dr, entry.duration - SeqMin(ds)))

\* Line 571, as a numerator over signal_range.
norm_signal(entry, entries) ==
    LET ss == [i \in DOMAIN entries |-> entries[i].avg_signal]
        sr == signal_range(entries)
    IN  Max(0, Min(sr, entry.avg_signal - SeqMin(ss)))

\* Line 573: norm_duration * 0.5 + norm_signal * 0.5, as a numerator over
\* 2 * duration_range * signal_range.
balanced_score(nd, ns, dr, sr) == nd * sr + ns * dr

routes_with_scores(alternative_routes, towers_in_area) ==
    LET entries == [i \in DOMAIN alternative_routes |->
                        route_entry(alternative_routes[i], i - 1, towers_in_area)]
        dr == duration_range(entries)
        sr == signal_range(entries)
    IN  [i \in DOMAIN entries |->
            LET nd == norm_duration(entries[i], entries)
                ns == norm_signal(entries[i], entries)
            IN  [route |-> entries[i].route,
                 towers |-> entries[i].towers,
                 tower_count |-> entries[i].tower_count,
                 avg_signal |-> entries[i].avg_signal,
                 duration |-> entries[i].duration,
                 index |-> entries[i].index,
                 norm_duration |-> nd,
                 norm_signal |-> ns,
                 balanced_score |-> balanced_score(nd, ns, dr, sr)]]

\* sorted(): stable, so candidates with equal keys keep their order. before is
\* the set of pairs <<i, j>> with key(i) < key(j).
stable_sort(s, before) ==
    LET n == Len(s)
        pos(i) == 1 + Cardinality({j \in 1..n :
                        \/ <<j, i>> \in before
                        \/ (<<i, j>> \notin before /\ j < i)})
    IN  [k \in 1..n |-> s[CHOOSE i \in 1..n : pos(i) = k]]

\* Line 579: key duration, ascending.
duration_before(a, b) == a.duration < b.duration

\* Mutant: the signal ranking without the tower-count tie-break.
signal_before_no_tie_break(a, b) == a.avg_signal > b.avg_signal

\* Lines 582-584: key (-avg_signal, -tower_count).
signal_before(a, b) ==
    \/ a.avg_signal > b.avg_signal
    \/ (a.avg_signal = b.avg_signal /\ a.tower_count > b.tower_count)

\* Lines 587-589: key -balanced_score.
balanced_before(a, b) == a.balanced_score > b.balanced_score

routes_sorted_by_duration(scored) ==
    stable_sort(scored, {p \in (DOMAIN scored) \X (DOMAIN scored) :
                            duration_before(scored[p[1]], scored[p[2]])})

routes_sorted_by_signal(scored) ==
    stable_sort(scored, {p \in (DOMAIN scored) \X (DOMAIN scored) :
                            signal_before(scored[p[1]], scored[p[2]])})

routes_sorted_by_balanced(scored) ==
    stable_sort(scored, {p \in (DOMAIN scored) \X (DOMAIN scored) :
                            balanced_before(scored[p[1]], scored[p[2]])})

EmptySlot == [route |-> None, towers |-> <<>>]

EmptySelection ==
    [fastest |-> EmptySlot, cell_coverage |-> EmptySlot, balanced |-> EmptySlot]

\* Lines 580, 585, 590: the head of each ranking.
selected_best(scored) ==
    [fastest |-> routes_sorted_by_duration(scored)[1],
     cell_coverage |-> routes_sorted_by_signal(scored)[1],
     balanced |-> routes_sorted_by_balanced(scored)[1]]

\* Mutant: no substitution, the duplicate is always kept.
diverse_route_kept(best, ranking, selected_route_indices) == best

\* Mutant: the next-best candidate is taken without checking that it is free.
diverse_route_unchecked(best, ranking, selected_route_indices) ==
    IF best.index \in selected_route_indices /\ Len(ranking) >= 2
    THEN ranking[2]
    ELSE best

\* Lines 602-607 and 613-618: keep best unless its index is taken; then the
\* first entry of ranking[1:] whose index is free, if there is one.
diverse_route(best, ranking, selected_route_indices) ==
    IF best.index \in selected_route_indices
    THEN LET free == {k \in 2..Len(ranking) :
                          ranking[k].index \notin selected_route_indices}
         IN  IF free = {} THEN best
             ELSE ranking[CHOOSE k \in free : \A m \in free : k <= m]
    ELSE best

\* Mutant: the balanced slot avoids the fastest candidate only.
final_route_selection_one_taken(scored) ==
    LET best == selected_best(scored)
        fastest == best.fastest
        cell == diverse_route(best.cell_coverage, routes_sorted_by_signal(scored),
                              {fastest.index})
        balanced == diverse_route(best.balanced, routes_sorted_by_balanced(scored),
                                  {fastest.index})
    IN  [fastest |-> fastest, cell_coverage |-> cell, balanced |-> balanced]

\* Lines 592-619.
final_route_selection(scored) ==
    LET best == selected_best(scored)
        fastest == best.fastest
        cell == diverse_route(best.cell_coverage, routes_sorted_by_signal(scored),
                              {fastest.index})
        balanced == diverse_route(best.balanced, routes_sorted_by_balanced(scored),
                                  {fastest.index, cell.index})
    IN  [fastest |-> fastest, cell_coverage |-> cell, balanced |-> balanced]

\* Lines 628-632: a parsed route is a non-empty dictionary, hence truthy.
output_slot(entry) == [route |-> entry.route, towers |-> entry.towers]

selection_output(final) ==
    [fastest |-> output_slot(final.fastest),
     cell_coverage |-> output_slot(final.cell_coverage),
     balanced |-> output_slot(final.balanced)]

\* Lines 516-632. (The one-element set binds routes_with_scores once.)
select_optimized_routes(alternative_routes, towers_in_area) ==
    IF alternative_routes = <<>> THEN EmptySelection
    ELSE CHOOSE out \in
            {selection_output(final_route_selection(scored)) :
                scored \in {routes_with_scores(alternative_routes, towers_in_area)}} :
            TRUE

\* ------------------------------------------------------ routing providers
Returned(code, message, routes) ==
    [kind |-> "return", code |-> code, message |-> message, routes |-> routes]

Raised(exception) ==
    [kind |-> "raise", code |-> exception, message |-> "", routes |-> <<>>]

\* What the routing providers can hand back: the routes are parsed ones, which
\* carry no tower information yet.
ProviderRoutes(provider) ==
    [duration : Durations, near : {{}}, coordinates : {TRUE},
     routing_provider : {provider}]

RECURSIVE ProviderRouteLists(_, _)
ProviderRouteLists(n, provider) ==
    IF n = 0 THEN {}
    ELSE ProviderRouteLists(n - 1, provider) \cup
         [1..n -> ProviderRoutes(provider)]

HttpErrorStatuses == {400, 401, 429, 500}
RedirectStatuses == {302}

Event(ev, hasResponse, status, routes) ==
    [ev |-> ev, hasResponse |-> hasResponse, status |-> status, routes |-> routes]

\* What can happen to the GraphHopper request of lines 229-231.
GraphHopperEvents ==
    {Event("paths", TRUE, 200, l) : l \in ProviderRouteLists(MaxRoutes, "graphhopper")}
    \cup {Event(e, TRUE, 200, <<>>) :
            e \in {"unparsable", "cannot_find_point", "connection_not_found", "no_paths"}}
    \cup {Event("timeout", FALSE, 0, <<>>),
          Event("connection_error", FALSE, 0, <<>>),
          Event("unexpected", FALSE, 0, <<>>)}
    \cup {Event("http_error", TRUE, s, <<>>) : s \in HttpErrorStatuses}
    \cup {Event("too_many_redirects", TRUE, s, <<>>) : s \in RedirectStatuses}

\* What can happen to the OSRM request of lines 329-331.
OsrmEvents ==
    {Event("routes", TRUE, 200, l) : l \in ProviderRouteLists(MaxRoutes, "osrm")}
    \cup {Event(e, TRUE, 200, <<>>) : e \in {"unparsable", "not_ok"}}
    \cup {Event(e, FALSE, 0, <<>>) : e \in {"timeout", "request_failed", "unexpected"}}

\* Lines 276-289. requests.Response is falsy for a status of 400 and above, so
\* "e.response.status_code if e.response else None" is None for every HTTP
\* error, as it is for an error without a response; None >= 500 then raises
\* TypeError inside the handler.
graphhopper_request_failed(event) ==
    LET response_truthy == event.hasResponse /\ event.status < 400
    IN  IF ~response_truthy THEN Raised("TypeError")
        ELSE IF event.status >= 500
             THEN Returned("Error", "Routing service is currently unavailable", <<>>)
             ELSE Returned("Error", "Routing service request failed", <<>>)

\* Lines 201-203: the key check, before any request is made.
graphhopper_key_missing ==
    Returned("Error", "Routing service configuration error: API key missing.", <<>>)

\* Lines 229-293: the result for each thing the request can do.
calculate_graphhopper_routes(event) ==
    CASE event.ev = "paths" ->
            Returned("Ok", "", event.routes)
      [] event.ev = "cannot_find_point" ->
            Returned("PointNotFound", "Could not find a valid road near the point", <<>>)
      [] event.ev = "connection_not_found" ->
            Returned("NoRoute", "No route found between the specified points.", <<>>)
      [] event.ev = "no_paths" ->
            Returned("NoRoute", "No route found.", <<>>)
      [] event.ev = "unparsable" ->
            Returned("Error", "Failed to process route data", <<>>)
      [] event.ev = "timeout" ->
            Returned("Timeout", "Routing service request timed out.", <<>>)
      [] event.ev \in {"http_error", "connection_error", "too_many_redirects"} ->
            graphhopper_request_failed(event)
      [] OTHER ->
            Returned("Error", "An unexpected error occurred", <<>>)

\* Lines 329-368.
calculate_osrm_route(event) ==
    CASE event.ev = "routes" ->
            Returned("Ok", "", event.routes)
      [] event.ev = "not_ok" ->
            Returned("NoRoute", "OSRM could not find a route", <<>>)
      [] event.ev = "unparsable" ->
            Returned("Error", "Failed to process route data from fallback", <<>>)
      [] event.ev = "timeout" ->
            Returned("Error", "Fallback routing service request timed out.", <<>>)
      [] event.ev = "request_failed" ->
            Returned("Error", "Fallback routing service request failed.", <<>>)
      [] OTHER ->
            Returned("Error", "An unexpected error occurred during fallback", <<>>)

\* Lines 399-409; distance_km is _haversine_distance of the two end points.
should_try_fallback(failure_code, distance_km) ==
    \/ failure_code = "Timeout"
    \/ failure_code = "Error"
    \/ distance_km > LONG_ROUTE_THRESHOLD_KM

\* Mutant: the fallback's own answer is returned, failed or not.
fallback_result_last(graphhopper_result, osrm_result) == osrm_result

\* Lines 415-422: what _calculate_route_with_fallback returns once OSRM answered.
fallback_result(graphhopper_result, osrm_result) ==
    IF osrm_result.code = "Ok" THEN osrm_result ELSE graphhopper_result

\* ------------------------------------------------------ _get_optimized_route
Outcome(kind, code, message, routes, towers, optimization_type) ==
    [kind |-> kind, code |-> code, message |-> message, routes |-> routes,
     towers |-> towers, optimization_type |-> optimization_type]

\* Lines 447-496. An error response is returned as it is. Otherwise line 466
\* calls _select_optimized_routes(alternative_routes, []) and drops the result,
\* and line 469 calls _calculate_bounds_from_routes, a name the module neither
\* defines nor imports: NameError. (Were it defined, line 483 would look for a
\* "code" key the selection never has and return "Failed to optimize route.")
get_optimized_route(response, optimization_type) ==
    IF response.code # "Ok"
    THEN Outcome("return", response.code, response.message, <<>>, <<>>, "")
    ELSE Outcome("raise", "NameError", "_calculate_bounds_from_routes", <<>>, <<>>, "")

\* ------------------------------------ services.py: calculate_signal_strength
\* A number Python holds as a float, as an exact fraction.
Fraction(num, den) == [num |-> num, den |-> den]

\* Weights 1 / distance**2 are held in units of 1 / WeightUnit per square
\* metre; the unit cancels in total_signal / total_weight.
WeightUnit == 100000000

\* Lines 155-173 give each tower its great-circle distance from the point, in
\* metres; the model's towers carry that distance.
SignalDistances == {50, 200, 1000, 5000, 5001}
TowerRanges == {0, 1000, 5000}
TowerSignals == {0, -60, -110}
SignalTowers == [distance : SignalDistances, range : TowerRanges,
                 averageSignal : TowerSignals]

RECURSIVE TowerLists(_)
TowerLists(n) ==
    IF n = 0 THEN {<<>>}
    ELSE LET shorter == TowerLists(n - 1)
         IN  shorter \cup
             {Append(l, t) : l \in {x \in shorter : Len(x) = n - 1},
                             t \in SignalTowers}

\* Line 173.
tower_range(tower) == IF tower.range > 0 THEN tower.range ELSE 5000

\* Line 176.
in_range(tower) == tower.distance <= tower_range(tower)

\* Lines 178-179.
signal_weight_of(tower) ==
    LET distance == Max(100, tower.distance)
    IN  WeightUnit \div (distance * distance)

\* Line 180.
tower_signal(tower) == IF tower.averageSignal # 0 THEN tower.averageSignal ELSE -70

\* Lines 154-183: the two sums of the loop.
RECURSIVE total_signal(_)
total_signal(towers) ==
    IF towers = <<>> THEN 0
    ELSE (IF in_range(Head(towers))
          THEN tower_signal(Head(towers)) * signal_weight_of(Head(towers))
          ELSE 0) + total_signal(Tail(towers))

RECURSIVE total_weight(_)
total_weight(towers) ==
    IF towers = <<>> THEN 0
    ELSE (IF in_range(Head(towers)) THEN signal_weight_of(Head(towers)) ELSE 0)
         + total_weight(Tail(towers))

\* Lines 146-190.
calculate_signal_strength(towers) ==
    IF towers = <<>> THEN Fraction(0, 1)
    ELSE IF total_weight(towers) = 0 THEN Fraction(-100, 1)
    ELSE Fraction(total_signal(towers), total_weight(towers))

\* -------------------------------------- services.py: the fallback grid graph
\* Coordinates are whole hundred-thousandths of a degree. A bounding box:
Box(min_lat, min_lng, max_lat, max_lng) ==
    [min_lat |-> min_lat, min_lng |-> min_lng, max_lat |-> max_lat, max_lng |-> max_lng]

\* The node (i, j) of nx.grid_2d_graph, numbered in the order Python compares
\* the tuples; every tuple is truthy, as every number from 1 on is.
GridNode(i, j) == i * (grid_size + 1) + j + 1

\* haversine_distance of two points on one meridian or one parallel, in
\* metres: 111 metres a thousandth of a degree (the cosine of the latitude
\* on a parallel is left out).
arc_length(units) == (units * 111) \div 100

\* Lines 362-400: a DiGraph of (grid_size + 1) squared nodes over the box, an
\* edge in both directions between neighbours.
grid_graph(box) ==
    LET lat_step == (box.max_lat - box.min_lat) \div grid_size
        lng_step == (box.max_lng - box.min_lng) \div grid_size
        along_lat == {<<GridNode(i, j), GridNode(i + 1, j), arc_length(lat_step)>> :
                          i \in 0..(grid_size - 1), j \in 0..grid_size}
        along_lng == {<<GridNode(i, j), GridNode(i, j + 1), arc_length(lng_step)>> :
                          i \in 0..grid_size, j \in 0..(grid_size - 1)}
        pairs == along_lat \cup along_lng
    IN  [nodes |-> {GridNode(i, j) : i \in 0..grid_size, j \in 0..grid_size},
         edges |-> {[u |-> e[1], v |-> e[2], length |-> e[3]] : e \in pairs}
                   \cup {[u |-> e[2], v |-> e[1], length |-> e[3]] : e \in pairs},
         multigraph |-> FALSE]

\* ------------------------------------------- services.py: get_road_network
\* Coordinates are whole hundred-thousandths of a degree, areas their products.
\* Line 210: 0.1 square degrees.
AreaThreshold == 1000000000

\* Line 221: small_buffer, 0.005 degrees.
small_buffer == 500

\* Line 243 and lines 294, 319: the timeout budget and its increase, seconds.
InitialTimeout == 90
TimeoutStep == 30

Abs(x) == IF x < 0 THEN -x ELSE x

\* Lines 200 and 210: area_size > 0.1, as an exact comparison of the product.
area_too_large(box) ==
    LET lat == box.max_lat - box.min_lat
        lng == box.max_lng - box.min_lng
    IN  \/ lat > 0 /\ lng > 0 /\ lat > AreaThreshold \div lng
        \/ lat < 0 /\ lng < 0 /\ -lat > AreaThreshold \div (-lng)

\* Lines 212-227: the corridor around the midpoint.
corridor(box) ==
    LET mid_lat == (box.min_lat + box.max_lat) \div 2
        mid_lng == (box.min_lng + box.max_lng) \div 2
        lat_direction == box.max_lat - box.min_lat
        lng_direction == box.max_lng - box.min_lng
    IN  Box(mid_lat - Abs(lat_direction) \div 4 - small_buffer,
            mid_lng - Abs(lng_direction) \div 4 - small_buffer,
            mid_lat + Abs(lat_direction) \div 4 + small_buffer,
            mid_lng + Abs(lng_direction) \div 4 + small_buffer)

\* Mutant: the corridor is fetched without looking at its area again.
narrowed_once(box) ==
    IF area_too_large(box) THEN corridor(box) ELSE box

\* Lines 210-230: the box of the frame that gets past the area test, the
\* function calling itself with the corridor until it does.
RECURSIVE narrowed(_)
narrowed(box) ==
    IF area_too_large(box) THEN narrowed(corridor(box)) ELSE box

\* The recursive calls of line 230 on the way.
RECURSIVE narrowing_calls(_)
narrowing_calls(box) ==
    IF area_too_large(box) THEN 1 + narrowing_calls(corridor(box)) ELSE 0

\* "{:.4f}": the nearest multiple of a ten-thousandth of a degree, ten units.
quantized(x) ==
    LET below == x - (x % 10)
    IN  IF x % 10 < 5 THEN below
        ELSE IF x % 10 > 5 THEN below + 10
        ELSE IF (below \div 10) % 2 = 0 THEN below ELSE below + 10

\* Line 233.
cache_key(box) ==
    <<quantized(box.min_lat), quantized(box.min_lng),
      quantized(box.max_lat), quantized(box.max_lng)>>

\* Lines 325-333: the box of 40% of the range around the midpoint.
smaller(box) ==
    LET lat_mid == (box.min_lat + box.max_lat) \div 2
        lng_mid == (box.min_lng + box.max_lng) \div 2
        lat_range == ((box.max_lat - box.min_lat) * 4) \div 10
        lng_range == ((box.max_lng - box.min_lng) * 4) \div 10
    IN  Box(lat_mid - lat_range \div 2, lng_mid - lng_range \div 2,
            lat_mid + lat_range \div 2, lng_mid + lng_range \div 2)

\* What ox.graph_from_bbox can end in (lines 268-354): a graph with nodes and
\* edges, a graph without edges, a timeout, or a connection error. No graph
\* at all and every other exception (lines 312-314 and 345-354) are handled
\* as the connection error is, but for what is printed and how long the
\* thread sleeps, and go under its name.
FetchEvents == {"graph", "no_edges", "timeout", "connection_error"}

\* Lines 293-294, 314, 318-319, 342, 347, 353: every failure counts a retry.
retry_after(event, retry) == retry + 1

\* Lines 294 and 319: only an empty graph and a timeout raise the budget.
timeout_after(event, timeout) ==
    IF event \in {"no_edges", "timeout"} THEN timeout + TimeoutStep ELSE timeout

\* Line 322: a timeout with a retry counted before it, or now the second.
tries_smaller_area(event, retry) ==
    event = "timeout" /\ retry_after(event, retry) >= 2

\* A graph object of the source, and the grid of lines 356-400.
FetchedGraph(id, box) == [kind |-> "osm", id |-> id, box |-> box]
GridGraph(box) == [kind |-> "grid", id |-> 0, box |-> box]
NoGraph == [kind |-> "none", id |-> 0, box |-> Box(0, 0, 0, 0)]

\* A fetch that is over: its box, its timeout budget, its number in its
\* frame, and the event it ended in.
Fetch(box, timeout, attempt, ended) ==
    [box |-> box, timeout |-> timeout, attempt |-> attempt, ended |-> ended]
NoFetch == Fetch(Box(0, 0, 0, 0), 0, 0, "")

\* What the call returned and how: "fetched", "cached", "grid", or the ways
\* an exhausted interpreter stack can end it.
RoadNetwork(how, graph) == [how |-> how, graph |-> graph]

\* At the interpreter's recursion limit the next call raises RecursionError:
\* outside a try it leaves get_road_network; inside the try of line 246 it is
\* one more failed attempt, and the frames end with the grid, or with None
\* when the grid cannot be built either (lines 402-404).
StackExhausted == {"RecursionError", "grid", "none"}

\* ----------------------------------------- services.py: dijkstra_with_signal
\* float('infinity') of line 681, above every sum of weights of the model.
Infinity == 1000000000

\* None as the value of previous[node]; no node has this identifier.
NoNode == -1

\* bool(node) of line 735: None is falsy, and so is the number 0.
Truthy(node) == node # NoNode /\ node # 0

\* A networkx graph: its nodes, its edges (parallel ones differ in length)
\* and its class, MultiDiGraph (what osmnx builds) or DiGraph.
Graph(nodes, edges, multigraph) ==
    [nodes |-> nodes, edges |-> edges, multigraph |-> multigraph]

\* graph.neighbors(node): the successors.
neighbors(graph, node) == {e.v : e \in {x \in graph.edges : x.u = node}}

\* Lines 754-757 and 816-819: min(graph.get_edge_data(u, v).values(),
\* key=lambda x: x.get('length', inf)). A MultiDiGraph gives a dictionary of
\* the parallel edges' attribute dictionaries, and the shortest is taken. A
\* DiGraph gives the attribute dictionary of the one edge, whose values are
\* numbers: x.get raises AttributeError, caught by the except around it.
edge_data(graph, u, v) ==
    IF graph.multigraph
    THEN LET lengths == {e.length : e \in {x \in graph.edges : x.u = u /\ x.v = v}}
         IN  [raised |-> FALSE,
              length |-> CHOOSE l \in lengths : \A m \in lengths : l <= m]
    ELSE [raised |-> TRUE, length |-> 0]

\* Weights are held in units of 1/280 metre; signal_weight as a number of
\* quarters. Lines 825-848.
WeightScale == 280

edge_weight(distance, signal, signal_weight) ==
    IF signal_weight > 0
    THEN LET normalized_signal == Max(0, Min(70, signal + 120))
             signal_factor == 70 - normalized_signal
         IN  (4 - signal_weight) * 70 * distance
             + signal_weight * signal_factor * 1000
    ELSE WeightScale * distance

\* Lines 676-678: without towers the weight is forced to 0.
effective_signal_weight(setting) ==
    IF setting.towers THEN setting.signal_weight ELSE 0

\* Lines 681-693.
dijkstra_start(graph, start_node) ==
    [distances |-> [n \in graph.nodes |-> IF n = start_node THEN 0 ELSE Infinity],
     previous |-> [n \in graph.nodes |-> NoNode],
     visited |-> {},
     pq |-> {<<0, start_node>>}]

\* heapq.heappop: the least tuple, compared by distance and then by node.
heappop(pq) ==
    CHOOSE p \in pq :
        \A q \in pq : p[1] < q[1] \/ (p[1] = q[1] /\ p[2] <= q[2])

\* Lines 735-739: while current_node: path.append(...); current_node = previous[...].
RECURSIVE path_to(_, _)
path_to(previous, current_node) ==
    IF ~Truthy(current_node) THEN <<>>
    ELSE Append(path_to(previous, previous[current_node]), current_node)

\* Lines 742-774: the sums over the edges of the path; an edge whose data
\* cannot be read adds nothing. Edges carry no speed_kph, so 50 kph it is:
\* 72 milliseconds a metre.
RECURSIVE route_sums(_, _, _, _)
route_sums(graph, path, signals, k) ==
    IF k > Len(path) THEN [distance |-> 0, duration_ms |-> 0, route_signals |-> <<>>]
    ELSE LET rest == route_sums(graph, path, signals, k + 1)
             data == edge_data(graph, path[k - 1], path[k])
         IN  IF data.raised THEN rest
             ELSE [distance |-> data.length + rest.distance,
                   duration_ms |-> 72 * data.length + rest.duration_ms,
                   route_signals |->
                       IF path[k] \in DOMAIN signals
                       THEN <<signals[path[k]]>> \o rest.route_signals
                       ELSE rest.route_signals]

RECURSIVE SeqSum(_)
SeqSum(q) == IF q = <<>> THEN 0 ELSE Head(q) + SeqSum(Tail(q))

\* Lines 776-806.
route_details(graph, path, signals) ==
    LET sums == route_sums(graph, path, signals, 2)
        route_signals == sums.route_signals
    IN  [distance |-> sums.distance,
         duration_ms |-> sums.duration_ms,
         average_signal |-> IF route_signals # <<>>
                            THEN Fraction(SeqSum(route_signals), Len(route_signals))
                            ELSE Fraction(-120, 1),
         min_signal |-> IF route_signals # <<>> THEN SeqMin(route_signals) ELSE -120,
         signal_samples |-> Len(route_signals)]

NoDetails == [none |-> TRUE]
NotFound == [found |-> FALSE, path |-> <<>>, details |-> NoDetails]
Found(path, details) == [found |-> TRUE, path |-> path, details |-> details]
Running == [running |-> TRUE]

\* Lines 696-703: node_signals is filled only when the weight is positive.
node_signals_used(setting) ==
    IF effective_signal_weight(setting) > 0 THEN setting.node_signals ELSE <<>>

\* Lines 809-860: the neighbours whose tentative distance improves, with it.
relaxed(graph, setting, st, current_node) ==
    LET candidates == {n \in neighbors(graph, current_node) \ st.visited :
                          ~edge_data(graph, current_node, n).raised}
        new_distance(n) ==
            st.distances[current_node]
            + edge_weight(edge_data(graph, current_node, n).length,
                          IF n \in DOMAIN node_signals_used(setting)
                          THEN node_signals_used(setting)[n] ELSE -120,
                          effective_signal_weight(setting))
    IN  {<<new_distance(n), n>> : n \in {m \in candidates :
                                            new_distance(m) < st.distances[m]}}

\* One iteration of the loop of line 713, on a non-empty pq: the locals after
\* it, the entry popped, and the result if the iteration returned.
dijkstra_iteration(graph, end_node, setting, st) ==
    LET popped == heappop(st.pq)
        current_node == popped[2]
        rest == st.pq \ {popped}
    IN  IF current_node \in st.visited
        THEN [locals |-> [st EXCEPT !.pq = rest],
              popped |-> [node |-> current_node, stale |-> TRUE],
              result |-> Running]
        ELSE IF current_node = end_node
        THEN [locals |-> [st EXCEPT !.pq = rest,
                                    !.visited = @ \cup {current_node}],
              popped |-> [node |-> current_node, stale |-> FALSE],
              result |-> LET path == path_to(st.previous, current_node)
                         IN  Found(path, route_details(graph, path,
                                                       node_signals_used(setting)))]
        ELSE LET better == relaxed(graph, setting, st, current_node)
                 improved == {b[2] : b \in better}
                 new(n) == (CHOOSE b \in better : b[2] = n)[1]
             IN  [locals |->
                      [distances |-> [n \in graph.nodes |->
                                         IF n \in improved THEN new(n)
                                         ELSE st.distances[n]],
                       previous |-> [n \in graph.nodes |->
                                        IF n \in improved THEN current_node
                                        ELSE st.previous[n]],
                       visited |-> st.visited \cup {current_node},
                       pq |-> rest \cup better],
                   popped |-> [node |-> current_node, stale |-> FALSE],
                   result |-> Running]

\* Lines 713-864: the loop to its end.
RECURSIVE dijkstra_loop(_, _, _, _)
dijkstra_loop(graph, end_node, setting, st) ==
    IF st.pq = {} THEN NotFound
    ELSE CHOOSE result \in
             {IF it.result # Running THEN it.result
              ELSE dijkstra_loop(graph, end_node, setting, it.locals) :
                  it \in {dijkstra_iteration(graph, end_node, setting, st)}} :
             TRUE

dijkstra_with_signal(graph, start_node, end_node, setting) ==
    dijkstra_loop(graph, end_node, setting, dijkstra_start(graph, start_node))

\* ---------------------------------------- routing_routes.py: calculate_route
\* Lines 79-106: an exception of the service is answered with 500; a result
\* with a code other than Ok with 503 when the code is Error and with 400
\* otherwise; anything else is sent as it is.
calculate_route(result) ==
    IF result.kind = "raise"
    THEN [status |-> 500,
          error |-> "An unexpected error occurred during route calculation."]
    ELSE IF result.code # "Ok"
    THEN [status |-> IF result.code = "Error" THEN 503 ELSE 400,
          error |-> result.message]
    ELSE [status |-> 200, error |-> ""]

\* ------------------------------------------------------------ Spec: a request
Distances == {5, 400, 401}

NoRequest == [type |-> "", distance_km |-> 0]
NoOutcome == Outcome("none", "", "", <<>>, <<>>, "")
NoResponse == [status |-> 0, error |-> ""]
NoSignal == [none |-> TRUE]
NoSelection == [fastest |-> None, cell_coverage |-> None, balanced |-> None]

\* No call of find_towers_along_route under way.
TowersIdle ==
    /\ twPc = "off"
    /\ twRoute = <<>>
    /\ twArea = <<>>
    /\ twResult = <<>>

\* No call of get_cell_towers under way.
CellsIdle ==
    /\ ctPc = "off"
    /\ ctBox = <<>>
    /\ ctFile = <<>>
    /\ ctResult = <<>>

\* No account registered, no call of the auth routes made.
UsersIdle ==
    /\ usNow = 0
    /\ usUser = <<>>
    /\ usIssued = 0
    /\ usHistory = <<>>
    /\ usLast = <<>>

\* routes_collection empty, no call of save_route made.
SavedRoutesIdle ==
    /\ srNow = 0
    /\ srRoutes = {}
    /\ srInserted = 0
    /\ srLast = <<>>

AppIdle == TowersIdle /\ CellsIdle /\ UsersIdle /\ SavedRoutesIdle

SelectIdle ==
    /\ selPc = "off"
    /\ inRoutes = <<>>
    /\ inTowers = <<>>
    /\ selScored = <<>>
    /\ selBest = NoSelection
    /\ selFinal = NoSelection
    /\ selResult = NoSelection

PathIdle ==
    /\ djPc = "off"
    /\ djGraph = [nodes |-> {}, edges |-> {}, multigraph |-> TRUE]
    /\ djStart = NoNode
    /\ djEnd = NoNode
    /\ djSetting = [towers |-> FALSE, signal_weight |-> 0, node_signals |-> <<>>]
    /\ djDistances = <<>>
    /\ djPrevious = <<>>
    /\ djVisited = {}
    /\ djPq = {}
    /\ djPopped = [node |-> NoNode, stale |-> FALSE]
    /\ djResult = Running

\* The request threads of the development server (app.py line 189: app.run
\* serves every request in a thread of its own).
Threads == {1, 2}

NoBox == Box(0, 0, 0, 0)
NoRoadNetwork == RoadNetwork("none", NoGraph)

CacheEmpty ==
    /\ road_network_cache = <<>>
    /\ cacheWrites = <<>>
    /\ graphsFetched = 0

CallsIdle ==
    /\ rnPc = [t \in Threads |-> "idle"]
    /\ rnRequested = [t \in Threads |-> NoBox]
    /\ rnBox = [t \in Threads |-> NoBox]
    /\ rnRetry = [t \in Threads |-> 0]
    /\ rnTimeout = [t \in Threads |-> 0]
    /\ rnDepth = [t \in Threads |-> 0]
    /\ rnFetchCount = [t \in Threads |-> 0]
    /\ rnPrevFetch = [t \in Threads |-> NoFetch]
    /\ rnResult = [t \in Threads |-> NoRoadNetwork]
    /\ rnPath = [t \in Threads |-> Running]

GraphIdle == CacheEmpty /\ CallsIdle

SignalIdle ==
    /\ sigPc = "off"
    /\ sigTowers = <<>>
    /\ sigResult = NoSignal

FlowIdle ==
    /\ pc = "idle"
    /\ req = NoRequest
    /\ calls = <<>>
    /\ http = <<>>
    /\ ghResult = NoResult
    /\ osrmResult = NoResult
    /\ altResult = NoResult

\* Nothing of services.py is in use.
ServicesIdle ==
    /\ SignalIdle
    /\ PathIdle
    /\ GraphIdle

Init ==
    /\ FlowIdle
    /\ keyConfigured \in BOOLEAN
    /\ outcome = NoOutcome
    /\ httpResponse = NoResponse
    /\ SelectIdle
    /\ ServicesIdle
    /\ AppIdle

\* _calculate_route_with_fallback returns result; _get_optimized_route goes on.
Finish(result, r) ==
    /\ altResult' = result
    /\ outcome' = get_optimized_route(result, r.type)
    /\ httpResponse' = calculate_route(outcome')
    /\ pc' = "done"

\* An exception of a provider function passes through every caller.
Propagate(result) ==
    /\ altResult' = altResult
    /\ outcome' = Outcome("raise", result.code, "", <<>>, <<>>, "")
    /\ httpResponse' = calculate_route(outcome')
    /\ pc' = "done"

\* Lines 393-413, after _calculate_graphhopper_routes gave gh.
AfterGraphHopper(gh, callsNow, httpNow, r) ==
    /\ ghResult' = gh
    /\ IF gh.kind = "raise"
       THEN Propagate(gh) /\ calls' = callsNow /\ http' = httpNow
       ELSE IF gh.code = "Ok" \/ ~should_try_fallback(gh.code, r.distance_km)
       THEN Finish(gh, r) /\ calls' = callsNow /\ http' = httpNow
       ELSE /\ pc' = "osrm"
            /\ calls' = Append(callsNow, "osrm")
            /\ http' = Append(httpNow, "osrm")
            /\ UNCHANGED <<altResult, outcome, httpResponse>>

\* get_route_fastest / get_route_cell_coverage / get_route_balanced, up to the
\* first network request.
StartRequest(type, distance_km) ==
    /\ pc = "idle"
    /\ req' = [type |-> type, distance_km |-> distance_km]
    /\ IF keyConfigured
       THEN /\ pc' = "graphhopper"
            /\ calls' = <<"graphhopper">>
            /\ http' = <<"graphhopper">>
            /\ UNCHANGED <<ghResult, altResult, outcome, httpResponse>>
       ELSE AfterGraphHopper(graphhopper_key_missing, <<"graphhopper">>, <<>>,
                             [type |-> type, distance_km |-> distance_km])
    /\ UNCHANGED <<keyConfigured, osrmResult, selVars, svcVars, appVars>>

\* The GraphHopper request ends; the handler runs on to the OSRM request or to
\* its end.
GraphHopperReturns(event) ==
    /\ pc = "graphhopper"
    /\ AfterGraphHopper(calculate_graphhopper_routes(event), calls, http, req)
    /\ UNCHANGED <<keyConfigured, req, osrmResult, selVars, svcVars, appVars>>

\* The OSRM request ends; the handler runs on to its end.
OsrmReturns(event) ==
    /\ pc = "osrm"
    /\ osrmResult' = calculate_osrm_route(event)
    /\ Finish(fallback_result(ghResult, osrmResult'), req)
    /\ UNCHANGED <<keyConfigured, req, calls, http, ghResult, selVars, svcVars, appVars>>

Next ==
    \/ \E t \in OptimizationTypes, d \in Distances : StartRequest(t, d)
    \/ \E e \in GraphHopperEvents : GraphHopperReturns(e)
    \/ \E e \in OsrmEvents : OsrmReturns(e)

Spec == Init /\ [][Next]_vars

\* ------------------------------------------- SpecSelect: the two functions
InitSelect ==
    /\ FlowIdle
    /\ keyConfigured = TRUE
    /\ outcome = NoOutcome
    /\ httpResponse = NoResponse
    /\ selPc = "input"
    /\ inTowers \in {<<>>, TowerCatalogue}
    /\ inRoutes \in RouteLists(MaxRoutes, IF inTowers = <<>> THEN {{}} ELSE NearSets)
    /\ selScored = <<>>
    /\ selBest = NoSelection
    /\ selFinal = NoSelection
    /\ selResult = NoSelection
    /\ ServicesIdle
    /\ AppIdle

\* _select_optimized_routes(inRoutes, inTowers).
SelectOptimizedCall ==
    /\ selPc = "input"
    /\ selPc' = "selected"
    /\ selResult' = select_optimized_routes(inRoutes, inTowers)
    /\ IF inRoutes = <<>>
       THEN UNCHANGED <<selScored, selBest, selFinal>>
       ELSE /\ selScored' = routes_with_scores(inRoutes, inTowers)
            /\ selBest' = selected_best(selScored')
            /\ selFinal' = final_route_selection(selScored')
    /\ UNCHANGED <<flowVars, outcome, httpResponse, inRoutes, inTowers, svcVars, appVars>>

\* _get_optimized_route from line 453 on, given an Ok response with inRoutes.
GetOptimizedRouteCall(type) ==
    /\ selPc = "input"
    /\ selPc' = "optimized"
    /\ outcome' = get_optimized_route(Returned("Ok", "", inRoutes), type)
    /\ UNCHANGED <<flowVars, httpResponse, inRoutes, inTowers, selScored, selBest, selFinal,
                   selResult, svcVars, appVars>>

NextSelect ==
    \/ SelectOptimizedCall
    \/ \E t \in OptimizationTypes : GetOptimizedRouteCall(t)

SpecSelect == InitSelect /\ [][NextSelect]_vars

\* The routing service is not in use.
RoutingIdle ==
    /\ FlowIdle
    /\ keyConfigured = TRUE
    /\ outcome = NoOutcome
    /\ httpResponse = NoResponse
    /\ SelectIdle

\* ------------------------------------ SpecSignal: calculate_signal_strength
InitSignal ==
    /\ RoutingIdle
    /\ sigPc = "input"
    /\ sigTowers \in TowerLists(MaxTowersNear)
    /\ sigResult = NoSignal
    /\ PathIdle
    /\ GraphIdle
    /\ AppIdle

\* calculate_signal_strength(lat, lng, sigTowers).
CalculateSignalStrengthCall ==
    /\ sigPc = "input"
    /\ sigPc' = "done"
    /\ sigResult' = calculate_signal_strength(sigTowers)
    /\ UNCHANGED <<flowVars, outcome, httpResponse, selVars, appVars, sigTowers, djVars, rnVars>>

NextSignal == CalculateSignalStrengthCall

SpecSignal == InitSignal /\ [][NextSignal]_vars

\* ------------------------------------------ SpecPath: dijkstra_with_signal
\* Road graphs as osmnx builds them: MultiDiGraphs over four nodes with
\* positive identifiers, with up to MaxEdges edges.
PathNodes == {1, 2, 3, 4}
EdgeLengths == {0, 1, 3}
RoadEdges == {e \in [u : PathNodes, v : PathNodes, length : EdgeLengths] : e.u # e.v}

RECURSIVE EdgeSets(_)
EdgeSets(n) ==
    IF n = 0 THEN {{}}
    ELSE LET fewer == EdgeSets(n - 1)
         IN  fewer \cup {g \cup {e} : g \in fewer, e \in RoadEdges}

RoadGraphs == {Graph(PathNodes, es, TRUE) : es \in EdgeSets(MaxEdges)}

\* MultiDiGraphs one of whose three nodes has the identifier 0.
ZeroNodes == {0, 1, 2}
ZeroEdges == {e \in [u : ZeroNodes, v : ZeroNodes, length : EdgeLengths] : e.u # e.v}
ZeroGraphs ==
    {Graph(ZeroNodes, es, TRUE) :
        es \in {x \in SUBSET ZeroEdges : Cardinality(x) <= MaxEdges}}

\* The grid get_road_network builds over a box of 0.04 by 0.08 degrees, and
\* three of its nodes: two corners and the centre.
GridGraphs == {grid_graph(Box(4230000, -7110000, 4234000, -7102000))}
GridEndpoints == {GridNode(0, 0), GridNode(5, 5), GridNode(10, 10)}

\* What calculate_signal_strength gives at a node, in whole dBm.
SignalAt(n) == CASE n % 3 = 1 -> -85 [] n % 3 = 2 -> -120 [] OTHER -> -50

\* signal_weight in quarters: 0, 0.25 and 1; without towers it does not count.
PathSettings(nodes) ==
    {[towers |-> t.towers, signal_weight |-> t.signal_weight,
      node_signals |-> [n \in nodes |-> SignalAt(n)]] :
        t \in {x \in [towers : BOOLEAN, signal_weight : {0, 1, 4}] :
                  x.towers \/ x.signal_weight = 1}}

InitPath ==
    /\ RoutingIdle
    /\ SignalIdle
    /\ djPc = "input"
    /\ djGraph \in RoadGraphs \cup ZeroGraphs \cup GridGraphs
    /\ djStart \in IF djGraph.multigraph THEN djGraph.nodes ELSE GridEndpoints
    /\ djEnd \in IF djGraph.multigraph THEN djGraph.nodes ELSE GridEndpoints
    /\ djSetting \in PathSettings(djGraph.nodes)
    /\ djDistances = <<>>
    /\ djPrevious = <<>>
    /\ djVisited = {}
    /\ djPq = {}
    /\ djPopped = [node |-> NoNode, stale |-> FALSE]
    /\ djResult = Running
    /\ GraphIdle
    /\ AppIdle

DjLocals ==
    [distances |-> djDistances, previous |-> djPrevious, visited |-> djVisited,
     pq |-> djPq]

\* dijkstra_with_signal up to the loop (lines 673-711).
DijkstraCall ==
    /\ djPc = "input"
    /\ djPc' = "running"
    /\ \E st \in {dijkstra_start(djGraph, djStart)} :
          /\ djDistances' = st.distances
          /\ djPrevious' = st.previous
          /\ djVisited' = st.visited
          /\ djPq' = st.pq
    /\ UNCHANGED <<flowVars, outcome, httpResponse, selVars, appVars, sigVars, djInputs,
                   djPopped, djResult, rnVars>>

\* One iteration of the loop; the function returns when it pops end_node.
DijkstraIteration ==
    /\ djPc = "running"
    /\ djPq # {}
    /\ \E it \in {dijkstra_iteration(djGraph, djEnd, djSetting, DjLocals)} :
          /\ djDistances' = it.locals.distances
          /\ djPrevious' = it.locals.previous
          /\ djVisited' = it.locals.visited
          /\ djPq' = it.locals.pq
          /\ djPopped' = it.popped
          /\ djResult' = it.result
          /\ djPc' = IF it.result = Running THEN "running" ELSE "done"
    /\ UNCHANGED <<flowVars, outcome, httpResponse, selVars, appVars, sigVars, djInputs, rnVars>>

\* The loop ends with pq empty: lines 862-864.
DijkstraExhausted ==
    /\ djPc = "running"
    /\ djPq = {}
    /\ djResult' = NotFound
    /\ djPc' = "done"
    /\ UNCHANGED <<flowVars, outcome, httpResponse, selVars, appVars, sigVars, djInputs,
                   djLocals, djPopped, rnVars>>

NextPath ==
    \/ DijkstraCall
    \/ DijkstraIteration
    \/ DijkstraExhausted

SpecPath == InitPath /\ [][NextPath]_vars

\* -------------------------------------------- SpecGraph: get_road_network
\* The boxes calculate_custom_route asks for: one of 0.1 by 0.2 degrees, its
\* corners not on the 0.0001-degree lattice of the cache keys, and one of 1
\* by 1 degree.
RequestBoxes ==
    {Box(4230004, -7110003, 4240004, -7090003),
     Box(4200000, -7200000, 4300000, -7100000)}

\* The nearest nodes of a request's two ends on the grid: opposite corners,
\* a corner and the middle, or one node for both.
GridTrips ==
    {<<GridNode(0, 0), GridNode(grid_size, grid_size)>>,
     <<GridNode(5, 5), GridNode(0, 0)>>,
     <<GridNode(5, 5), GridNode(5, 5)>>}

\* The setting of dijkstra_with_signal in calculate_custom_route: towers of
\* the area, signal_weight 0.25 or 1 (lines 890 and 920).
CustomSettings(nodes) ==
    {[towers |-> TRUE, signal_weight |-> w,
      node_signals |-> [n \in nodes |-> SignalAt(n)]] : w \in {1, 4}}

InitGraph ==
    /\ RoutingIdle
    /\ SignalIdle
    /\ PathIdle
    /\ GraphIdle
    /\ AppIdle

\* The call of thread t ends, every frame returning what the innermost gave;
\* the frames and their locals are gone.
Return(t, result) ==
    /\ rnPc' = [rnPc EXCEPT ![t] = "done"]
    /\ rnResult' = [rnResult EXCEPT ![t] = result]
    /\ rnBox' = [rnBox EXCEPT ![t] = NoBox]
    /\ rnRetry' = [rnRetry EXCEPT ![t] = 0]
    /\ rnTimeout' = [rnTimeout EXCEPT ![t] = 0]
    /\ rnDepth' = [rnDepth EXCEPT ![t] = 0]
    /\ rnPrevFetch' = [rnPrevFetch EXCEPT ![t] = NoFetch]

\* Lines 240-247 in thread t: the loop is entered and the first fetch of the
\* frame issued.
FirstFetch(t, box, depth) ==
    /\ rnPc' = [rnPc EXCEPT ![t] = "fetching"]
    /\ rnBox' = [rnBox EXCEPT ![t] = box]
    /\ rnRetry' = [rnRetry EXCEPT ![t] = 0]
    /\ rnTimeout' = [rnTimeout EXCEPT ![t] = InitialTimeout]
    /\ rnDepth' = [rnDepth EXCEPT ![t] = depth]
    /\ UNCHANGED rnResult

\* The request of thread t calls get_road_network(box), which runs to its
\* first fetch, or to its end on a cache hit (lines 199-247).
GetRoadNetwork(t, box) ==
    /\ rnPc[t] = "idle"
    /\ rnRequested' = [rnRequested EXCEPT ![t] = box]
    /\ rnPath' = [rnPath EXCEPT ![t] = Running]
    /\ IF cache_key(narrowed(box)) \in DOMAIN road_network_cache
       THEN /\ Return(t, RoadNetwork("cached",
                                     road_network_cache[cache_key(narrowed(box))]))
            /\ rnFetchCount' = [rnFetchCount EXCEPT ![t] = 0]
       ELSE /\ FirstFetch(t, narrowed(box), narrowing_calls(box))
            /\ rnFetchCount' = [rnFetchCount EXCEPT ![t] = 1]
            /\ rnPrevFetch' = [rnPrevFetch EXCEPT ![t] = NoFetch]
    /\ UNCHANGED <<flowVars, outcome, httpResponse, selVars, appVars, sigVars, djVars, cacheVars>>

\* Lines 306-311: the graph is put into the cache and returned.
StoreAndReturn(t) ==
    LET graph == FetchedGraph(graphsFetched + 1, rnBox[t])
        key == cache_key(rnBox[t])
    IN  /\ graphsFetched' = graphsFetched + 1
        /\ road_network_cache' =
              [k \in DOMAIN road_network_cache \cup {key} |->
                  IF k = key THEN graph ELSE road_network_cache[k]]
        /\ cacheWrites' = Append(cacheWrites, [key |-> key, graph |-> graph, thread |-> t])
        /\ Return(t, RoadNetwork("fetched", graph))
        /\ UNCHANGED rnFetchCount

\* The loop goes on (line 245) or the grid is built (lines 356-400).
NextAttempt(t, event) ==
    LET retry == retry_after(event, rnRetry[t])
        timeout == timeout_after(event, rnTimeout[t])
    IN  IF retry < max_retries
        THEN /\ rnRetry' = [rnRetry EXCEPT ![t] = retry]
             /\ rnTimeout' = [rnTimeout EXCEPT ![t] = timeout]
             /\ rnFetchCount' = [rnFetchCount EXCEPT ![t] = @ + 1]
             /\ rnPrevFetch' = [rnPrevFetch EXCEPT
                                   ![t] = Fetch(rnBox[t], rnTimeout[t], rnRetry[t] + 1, event)]
             /\ UNCHANGED <<rnPc, rnResult, rnBox, rnDepth>>
        ELSE /\ Return(t, RoadNetwork("grid", GridGraph(rnBox[t])))
             /\ UNCHANGED rnFetchCount

\* Lines 322-338: get_road_network calls itself with the smaller box; its
\* frame looks the box up in the cache and fetches it on a miss.
TrySmallerArea(t, event, exhausted) ==
    LET box == narrowed(smaller(rnBox[t]))
        depth == rnDepth[t] + 1 + narrowing_calls(smaller(rnBox[t]))
    IN  IF rnDepth[t] >= RecursionLimit
        THEN /\ Return(t, RoadNetwork(exhausted,
                                      IF exhausted = "grid" THEN GridGraph(rnBox[t])
                                      ELSE NoGraph))
             /\ UNCHANGED rnFetchCount
        ELSE IF cache_key(box) \in DOMAIN road_network_cache
        THEN /\ Return(t, RoadNetwork("cached", road_network_cache[cache_key(box)]))
             /\ UNCHANGED rnFetchCount
        ELSE /\ FirstFetch(t, box, depth)
             /\ rnFetchCount' = [rnFetchCount EXCEPT ![t] = @ + 1]
             /\ rnPrevFetch' = [rnPrevFetch EXCEPT
                                   ![t] = Fetch(rnBox[t], rnTimeout[t], rnRetry[t] + 1, event)]

\* The fetch of thread t ends in event; the thread runs on to its next fetch
\* or to the end of the call.
FetchReturns(t, event, exhausted) ==
    /\ rnPc[t] = "fetching"
    /\ IF event = "graph"
       THEN StoreAndReturn(t)
       ELSE /\ UNCHANGED cacheVars
            /\ IF tries_smaller_area(event, rnRetry[t])
               THEN TrySmallerArea(t, event, exhausted)
               ELSE NextAttempt(t, event)
    /\ UNCHANGED <<flowVars, outcome, httpResponse, selVars, appVars, sigVars, djVars,
                   rnRequested, rnPath>>

\* calculate_custom_route from line 542 on, when get_road_network gave the
\* grid: the nearest nodes and dijkstra_with_signal on it. (The model does
\* not hold the nodes and edges of a fetched graph.)
CustomRouteOnGrid(t) ==
    /\ rnPc[t] = "done"
    /\ rnResult[t].how = "grid"
    /\ rnPath[t] = Running
    /\ \E graph \in {grid_graph(rnResult[t].graph.box)} :
          \E trip \in GridTrips, setting \in CustomSettings(graph.nodes) :
              rnPath' = [rnPath EXCEPT
                            ![t] = dijkstra_with_signal(graph, trip[1], trip[2], setting)]
    /\ UNCHANGED <<flowVars, outcome, httpResponse, selVars, appVars, sigVars, djVars,
                   cacheVars, rnPc, rnRequested, rnFrame, rnFetches, rnResult>>

NextGraph ==
    \/ \E t \in Threads, box \in RequestBoxes : GetRoadNetwork(t, box)
    \/ \E t \in Threads, event \in FetchEvents, exhausted \in StackExhausted :
          FetchReturns(t, event, exhausted)
    \/ \E t \in Threads : CustomRouteOnGrid(t)

SpecGraph == InitGraph /\ [][NextGraph]_vars

\* ------------------------------------------- SpecTowers: find_towers_along_route
\* towers_in_area: n towers, numbered in the order of their position along
\* the route, which is the order the geometric filter returns them in.
AreaTowers(n) == [k \in 1..n |-> [id |-> k, averageSignal |-> -70 - (k % 40)]]

\* The towers the geometric filter retains for a route: none, all, all but
\* every seventh, or every second of the area.
RetainedSets(n) ==
    {{}, 1..n, {k \in 1..n : k % 7 # 0}, {k \in 1..n : k % 2 = 1}}

InitTowers ==
    /\ RoutingIdle
    /\ ServicesIdle
    /\ CellsIdle
    /\ UsersIdle
    /\ SavedRoutesIdle
    /\ twPc = "input"
    /\ \E n \in 0..MaxAreaTowers :
          /\ twArea = AreaTowers(n)
          /\ twRoute \in [near : RetainedSets(n), coordinates : BOOLEAN]
    /\ twResult = <<>>

\* find_towers_along_route(route_coords, towers_in_area).
FindTowersAlongRoute ==
    /\ twPc = "input"
    /\ twPc' = "done"
    /\ twResult' = find_towers_along_route(twRoute, twArea)
    /\ UNCHANGED <<flowVars, outcome, httpResponse, selVars, svcVars, cellVars, userVars, routeVars, twRoute, twArea>>

NextTowers == FindTowersAlongRoute

SpecTowers == InitTowers /\ [][NextTowers]_vars

\* ------------------------------------------------- SpecCells: get_cell_towers
\* float('nan') and float('inf') in a column of the dataset.
NaN == 1000001
Inf == 1000002

\* The random module: the k-th draw of a stream. Every value of lo..hi is
\* drawn by some stream.
Draws == [seed : {0, 25, 50}, step : {0, 1, 50}]
randint(draw, k, lo, hi) == lo + ((draw.seed + draw.step * k) % (hi - lo + 1))

\* random.random() in tenths.
random_tenths(draw, k) == (draw.seed + draw.step * k + k) % 10

radio_types == <<"LTE", "LTE", "LTE", "5G", "5G", "UMTS", "GSM">>

\* Mutant: the signal range of the fallback in services.py.
mock_signal_wide(draw, i) == randint(draw, i, -110, -60)

mock_signal(draw, i) == randint(draw, i, MinMockSignal, MaxMockSignal)

generate_mock_towers(box, num_towers, draw) ==
    LET lat_range == box.max_lat - box.min_lat
        lng_range == box.max_lng - box.min_lng
    IN  IF lat_range <= 0 \/ lng_range <= 0 THEN <<>>
        ELSE [k \in 1..num_towers |->
                LET i == k - 1
                    radio == radio_types[randint(draw, 2 * i, 1, 7)]
                IN  [id |-> <<"mock", i>>,
                     lat |-> box.min_lat + (random_tenths(draw, i) * lat_range) \div 10,
                     lon |-> box.min_lng + (random_tenths(draw, i + 3) * lng_range) \div 10,
                     radio |-> radio,
                     range |-> IF radio = "5G" THEN randint(draw, i, 500, 2000)
                               ELSE randint(draw, i, 1000, 5000),
                     averageSignal |-> mock_signal(draw, i)]]

\* An exception raised in the try block, or its result.
RaisedInTry(exception) == [raised |-> exception, towers |-> <<>>]

InBounds(box, row) ==
    /\ row.lat >= box.min_lat /\ row.lat <= box.max_lat
    /\ row.lon >= box.min_lng /\ row.lon <= box.max_lng

\* DataFrame.sample(n, random_state=42): n of the rows, in another order.
sample(rows, n, draw) ==
    [i \in 1..n |-> rows[((draw.seed + i - 1) % Len(rows)) + 1]]

process_tower(tower, i, draw) ==
    IF "averageSignal" \notin DOMAIN tower
    THEN [k \in DOMAIN tower \cup {"averageSignal"} |->
            IF k = "averageSignal"
            THEN randint(draw, i, MinAssignedSignal, MaxAssignedSignal)
            ELSE tower[k]]
    ELSE IF tower.averageSignal = NaN \/ tower.averageSignal = 0
    THEN [tower EXCEPT !.averageSignal =
            randint(draw, i, MinAssignedSignal, MaxAssignedSignal)]
    ELSE tower

\* Lines 45-85, the body of the try block.
read_and_process(box, file, draw) ==
    IF file.state = "absent" THEN RaisedInTry("FileNotFoundError")
    ELSE IF file.state = "empty" THEN RaisedInTry("EmptyDataError")
    ELSE IF file.state = "garbled" THEN RaisedInTry("ParserError")
    ELSE IF ~file.has_lat THEN RaisedInTry("KeyError")
    ELSE LET in_bounds == SelectSeq(file.rows, LAMBDA row : InBounds(box, row))
             towers_df == IF Len(in_bounds) > MAX_TOWERS_FROM_CSV
                          THEN sample(in_bounds, MAX_TOWERS_FROM_CSV, draw)
                          ELSE in_bounds
         IN  IF \E i \in DOMAIN towers_df : towers_df[i].range = Inf
             THEN RaisedInTry("OverflowError")
             ELSE [raised |-> "",
                   towers |-> [i \in DOMAIN towers_df |->
                                 process_tower(towers_df[i], i, draw)]]

\* The exceptions of the model all derive from Exception.
Exceptions ==
    {"FileNotFoundError", "EmptyDataError", "ParserError", "KeyError", "OverflowError"}

Answer(towers, data_source) ==
    [raised |-> "", towers |-> towers, total |-> Len(towers), source |-> data_source]

\* Mutant: data_source is set to "CSV" as soon as the file is read.
get_cell_towers_tagged_early(box, file, num_towers, draw) ==
    LET body == read_and_process(box, file, draw)
    IN  IF body.raised = "" THEN Answer(body.towers, "CSV")
        ELSE Answer(generate_mock_towers(box, num_towers, draw),
                    IF body.raised \in {"KeyError", "OverflowError"} THEN "CSV" ELSE "mock")

get_cell_towers(box, file, num_towers, draw) ==
    LET body == read_and_process(box, file, draw)
    IN  IF body.raised = "" THEN Answer(body.towers, "CSV")
        ELSE IF body.raised \in Exceptions
        THEN Answer(generate_mock_towers(box, num_towers, draw), "mock")
        ELSE [raised |-> body.raised, towers |-> <<>>, total |-> 0, source |-> ""]

\* The boxes a caller passes: with positive extent, of one point, swapped.
Spans == {<<0, 10>>, <<0, 0>>, <<10, 0>>, <<5, 10>>}
Boxes ==
    {[min_lat |-> lat[1], max_lat |-> lat[2], min_lng |-> lng[1], max_lng |-> lng[2]] :
        lat \in Spans, lng \in Spans}

RowKinds == {"signal", "zero", "nan", "no_signal_column", "inf_range"}

DatasetRow(k, kind) ==
    LET row == [id |-> <<"cell", k>>,
                lat |-> 5 * (k % 3),
                lon |-> 5 * ((k \div 3) % 3),
                range |-> IF kind = "inf_range" /\ k % 4 = 0 THEN Inf ELSE 1500,
                averageSignal |-> IF kind = "zero" /\ k % 2 = 0 THEN 0
                                  ELSE IF kind = "nan" /\ k % 2 = 1 THEN NaN
                                  ELSE -70 - (k % 40)]
    IN  IF kind = "no_signal_column"
        THEN [f \in {"id", "lat", "lon", "range"} |-> row[f]]
        ELSE row

Table(n, kind) ==
    [state |-> "table", has_lat |-> TRUE, rows |-> [k \in 1..n |-> DatasetRow(k, kind)]]

Files ==
    {[state |-> st] : st \in {"absent", "empty", "garbled"}}
        \cup {[state |-> "table", has_lat |-> FALSE, rows |-> <<>>]}
        \cup {Table(n, kind) : n \in {0, 1, 10}, kind \in RowKinds}
        \cup {Table(MaxDatasetRows, kind) : kind \in {"signal", "zero"}}

InitCells ==
    /\ RoutingIdle
    /\ ServicesIdle
    /\ TowersIdle
    /\ UsersIdle
    /\ SavedRoutesIdle
    /\ ctPc = "input"
    /\ ctBox \in Boxes
    /\ ctFile \in Files
    /\ ctResult = <<>>

\* get_cell_towers(min_lat, min_lng, max_lat, max_lng).
GetCellTowers ==
    /\ ctPc = "input"
    /\ ctPc' = "done"
    /\ \E num_towers \in MinMockTowers..MaxMockTowers, draw \in Draws :
          ctResult' = get_cell_towers(ctBox, ctFile, num_towers, draw)
    /\ UNCHANGED <<flowVars, outcome, httpResponse, selVars, svcVars, towerVars, userVars, routeVars, ctBox, ctFile>>

NextCells == GetCellTowers

SpecCells == InitCells /\ [][NextCells]_vars

\* ------------------------------------------- SpecUsers: models/user.py
\* None in lockout_until and password_reset_expires, and in password_reset_token.
NoTime == -1
NoToken == 0

RegisteredEmail == "user@example.com"
Emails == {RegisteredEmail, "nobody@example.com", ""}
Passwords == {"first", "second"}

\* bcrypt.hashpw(password, bcrypt.gensalt()) and bcrypt.checkpw.
hashpw(password) == [bcrypt |-> password]
checkpw(password, hashed) == hashed.bcrypt = password

\* The document register_user inserts.
register_user(password) ==
    [password |-> hashpw(password),
     failed_login_attempts |-> 0,
     lockout_until |-> NoTime,
     password_reset_token |-> NoToken,
     password_reset_expires |-> NoTime]

is_user_locked_out(user, now) ==
    user.lockout_until # NoTime /\ user.lockout_until > now

\* What a function of models/user.py leaves in the collection and returns.
Gave(user, ok, error) == [user |-> user, ok |-> ok, error |-> error]

wrong_password(user, now) ==
    LET new_attempts == user.failed_login_attempts + 1
        counted == [user EXCEPT !.failed_login_attempts = @ + 1]
    IN  IF new_attempts >= MAX_LOGIN_ATTEMPTS
        THEN [counted EXCEPT !.lockout_until = now + LOCKOUT_DURATION_MINUTES]
        ELSE counted

\* Mutant: the password is checked before the lockout.
login_user_password_first(user, now, email, password, db_ok) ==
    IF email = "" \/ password = "" THEN Gave(user, FALSE, "Email and password are required.")
    ELSE IF email # RegisteredEmail THEN Gave(user, FALSE, "Invalid email or password")
    ELSE IF checkpw(password, user.password)
    THEN Gave([user EXCEPT !.failed_login_attempts = 0, !.lockout_until = NoTime], TRUE, "")
    ELSE IF is_user_locked_out(user, now) THEN Gave(user, FALSE, "Account locked")
    ELSE Gave(wrong_password(user, now), FALSE, "Invalid email or password")

login_user(user, now, email, password, db_ok) ==
    IF email = "" \/ password = "" THEN Gave(user, FALSE, "Email and password are required.")
    ELSE IF email # RegisteredEmail THEN Gave(user, FALSE, "Invalid email or password")
    ELSE IF is_user_locked_out(user, now) THEN Gave(user, FALSE, "Account locked")
    ELSE IF ~db_ok THEN Gave(user, FALSE, "Login failed due to a server error.")
    ELSE IF checkpw(password, user.password)
    THEN Gave([user EXCEPT !.failed_login_attempts = 0, !.lockout_until = NoTime], TRUE, "")
    ELSE Gave(wrong_password(user, now), FALSE, "Invalid email or password")

\* routes/auth_routes.py, login: the status of the answer.
login_status(email, password, gave) ==
    IF email = "" \/ password = "" THEN 400
    ELSE IF gave.ok THEN 200
    ELSE IF gave.error = "Account locked" THEN 403
    ELSE 401

forgot_password(user, now, email, token, db_ok) ==
    IF email = "" THEN Gave(user, FALSE, "Email is required.")
    ELSE IF ~db_ok THEN Gave(user, FALSE, "Server error during password reset initiation.")
    ELSE IF email # RegisteredEmail THEN Gave(user, FALSE, "No account found with this email address.")
    ELSE Gave([user EXCEPT !.password_reset_token = token,
                           !.password_reset_expires = now + RESET_TOKEN_MINUTES],
              TRUE, "")

\* Mutant: the token stays in the document after the password is updated.
verify_reset_token_and_update_password_token_kept(user, now, token, new_password, db_ok) ==
    IF token = NoToken \/ new_password = "" THEN Gave(user, FALSE, "Token and new password are required.")
    ELSE IF user.password_reset_token # token THEN Gave(user, FALSE, "Invalid or expired reset token.")
    ELSE Gave([user EXCEPT !.password = hashpw(new_password),
                           !.failed_login_attempts = 0,
                           !.lockout_until = NoTime],
              TRUE, "")

verify_reset_token_and_update_password(user, now, token, new_password, db_ok) ==
    IF token = NoToken \/ new_password = "" THEN Gave(user, FALSE, "Token and new password are required.")
    ELSE IF ~db_ok THEN Gave(user, FALSE, "Password reset failed due to a server error.")
    ELSE IF user.password_reset_token # token THEN Gave(user, FALSE, "Invalid or expired reset token.")
    ELSE IF user.password_reset_expires = NoTime \/ user.password_reset_expires < now
    THEN Gave([user EXCEPT !.password_reset_token = NoToken,
                           !.password_reset_expires = NoTime],
              FALSE, "Invalid or expired reset token.")
    ELSE LET updated == [user EXCEPT !.password = hashpw(new_password),
                                     !.password_reset_token = NoToken,
                                     !.password_reset_expires = NoTime,
                                     !.failed_login_attempts = 0,
                                     !.lockout_until = NoTime]
         IN  IF updated # user THEN Gave(updated, TRUE, "")
             ELSE Gave(updated, FALSE, "Password reset failed during database update.")

\* What a client posts to /auth/login: a password or none for the account,
\* a password for another address or for none.
Credentials ==
    ({RegisteredEmail} \X (Passwords \cup {""}))
        \cup ((Emails \ {RegisteredEmail}) \X {"first"})

\* What a client posts to /auth/reset-password: a token with a new password
\* or without one, or a password without a token.
Submissions ==
    ((1..MaxTokens) \X Passwords) \cup {<<1, "">>, <<NoToken, "first">>}

NoCall == [call |-> "none", ok |-> FALSE, error |-> "", status |-> 0,
           known |-> FALSE, correct |-> FALSE, token |-> NoToken]

NoHistory == [failed_calls |-> 0, failed_since_reset |-> 0, changed_by |-> {}, retired |-> {}]

InitUsers ==
    /\ RoutingIdle
    /\ ServicesIdle
    /\ TowersIdle
    /\ CellsIdle
    /\ SavedRoutesIdle
    /\ usNow = 0
    /\ usUser = register_user("first")
    /\ usIssued = 0
    /\ usHistory = NoHistory
    /\ usLast = NoCall

OutsideUsers ==
    <<flowVars, outcome, httpResponse, selVars, svcVars, towerVars, cellVars, routeVars>>

\* Time passes between two requests.
Tick ==
    /\ usNow + TickMinutes <= MaxTime
    /\ usNow' = usNow + TickMinutes
    /\ usLast' = NoCall
    /\ UNCHANGED <<OutsideUsers, usUser, usIssued, usHistory>>

\* POST /auth/login.
Login(email, password, db_ok) ==
    LET gave == login_user(usUser, usNow, email, password, db_ok)
        rejected == email = RegisteredEmail /\ gave.error = "Invalid email or password"
    IN  /\ gave.user.failed_login_attempts <= MaxAttempts
        /\ usUser' = gave.user
        /\ usHistory' =
              IF gave.ok
              THEN [usHistory EXCEPT !.failed_calls = 0, !.failed_since_reset = 0]
              ELSE IF rejected
              THEN [usHistory EXCEPT
                      !.failed_calls = Min(@ + 1, MAX_LOGIN_ATTEMPTS),
                      !.failed_since_reset = Min(@ + 1, MAX_LOGIN_ATTEMPTS)]
              ELSE usHistory
        /\ usLast' = [call |-> "login", ok |-> gave.ok, error |-> gave.error,
                      status |-> login_status(email, password, gave),
                      known |-> email = RegisteredEmail,
                      correct |-> email = RegisteredEmail /\ checkpw(password, usUser.password),
                      token |-> NoToken]
        /\ UNCHANGED <<OutsideUsers, usNow, usIssued>>

\* POST /auth/forgot-password.
ForgotPassword(email, db_ok) ==
    LET token == usIssued + 1
        gave == forgot_password(usUser, usNow, email, token, db_ok)
    IN  /\ usIssued < MaxTokens
        /\ usUser' = gave.user
        /\ usIssued' = IF gave.ok THEN token ELSE usIssued
        /\ usHistory' =
              IF gave.ok /\ usUser.password_reset_token # NoToken
              THEN [usHistory EXCEPT !.retired = @ \cup {usUser.password_reset_token}]
              ELSE usHistory
        /\ usLast' = [call |-> "forgot", ok |-> gave.ok, error |-> gave.error,
                      status |-> IF email = "" THEN 400 ELSE 200,
                      known |-> email = RegisteredEmail,
                      correct |-> FALSE, token |-> IF gave.ok THEN token ELSE NoToken]
        /\ UNCHANGED <<OutsideUsers, usNow>>

\* POST /auth/reset-password.
ResetPassword(token, new_password, db_ok) ==
    LET gave == verify_reset_token_and_update_password(usUser, usNow, token, new_password, db_ok)
        cleared == /\ token # NoToken
                   /\ usUser.password_reset_token = token
                   /\ gave.user.password_reset_token = NoToken
    IN  /\ usUser' = gave.user
        /\ usHistory' =
              [usHistory EXCEPT
                 !.failed_since_reset = IF gave.ok THEN 0 ELSE @,
                 !.changed_by = IF gave.ok THEN @ \cup {token} ELSE @,
                 !.retired = IF gave.ok \/ cleared THEN @ \cup {token} ELSE @]
        /\ usLast' = [call |-> "reset", ok |-> gave.ok, error |-> gave.error,
                      status |-> IF gave.ok THEN 200 ELSE 400,
                      known |-> token # NoToken /\ token = usUser.password_reset_token,
                      correct |-> FALSE, token |-> token]
        /\ UNCHANGED <<OutsideUsers, usNow, usIssued>>

NextUsers ==
    \/ Tick
    \/ \E credentials \in Credentials, db_ok \in BOOLEAN :
          Login(credentials[1], credentials[2], db_ok)
    \/ \E email \in Emails, db_ok \in BOOLEAN : ForgotPassword(email, db_ok)
    \/ \E submitted \in Submissions, db_ok \in BOOLEAN :
          ResetPassword(submitted[1], submitted[2], db_ok)

SpecUsers == InitUsers /\ [][NextUsers]_vars

\* ------------------------------------------ SpecRoutes: models/route.py
UserIds == {"u1", "u2"}

\* Where the database fails during a call, if it does.
Faults == {"none", "count_documents", "delete_many", "insert_one"}

RoutesOf(routes, user_id) == {route \in routes : route.user_id = user_id}

\* find(..., sort=[('created_at', 1)], limit=n): the n oldest of the
\* candidates, any of those with equal created_at.
OldestOf(candidates, n) ==
    {chosen \in SUBSET candidates :
        /\ Cardinality(chosen) = Min(n, Cardinality(candidates))
        /\ \A old \in chosen, kept \in candidates \ chosen :
              old.created_at <= kept.created_at}

\* The order the database returns documents of equal created_at in: ties
\* broken towards the lower id or towards the higher.
find_oldest(candidates, n, low) ==
    CHOOSE chosen \in OldestOf(candidates, n) :
        \A other \in OldestOf(candidates, n) :
            \A a \in chosen \ other, b \in other \ chosen :
                IF low THEN a.id < b.id ELSE a.id > b.id

Saved(routes, route_id, error) == [routes |-> routes, route_id |-> route_id, error |-> error]

ServerError == "Failed to save route due to a server error."

\* Mutant: the oldest routes of the collection are looked up, of any user.
save_route_any_user(routes, user_id, now, new_id, fault, low) ==
    LET current_route_count == Cardinality(RoutesOf(routes, user_id))
        ids_to_delete == IF current_route_count >= MAX_SAVED_ROUTES
                         THEN find_oldest(routes, current_route_count - MAX_SAVED_ROUTES + 1, low)
                         ELSE {}
        new_route == [id |-> new_id, user_id |-> user_id, created_at |-> now]
    IN  Saved((routes \ ids_to_delete) \cup {new_route}, new_id, "")

save_route(routes, user_id, now, new_id, fault, low) ==
    IF fault = "count_documents" THEN Saved(routes, 0, ServerError)
    ELSE LET current_route_count == Cardinality(RoutesOf(routes, user_id))
             ids_to_delete ==
                 IF current_route_count >= MAX_SAVED_ROUTES
                 THEN find_oldest(RoutesOf(routes, user_id),
                                  current_route_count - MAX_SAVED_ROUTES + 1, low)
                 ELSE {}
             new_route == [id |-> new_id, user_id |-> user_id, created_at |-> now]
         IN  IF fault = "delete_many" /\ ids_to_delete # {}
             THEN Saved(routes, 0, ServerError)
             ELSE IF fault = "insert_one"
             THEN Saved(routes \ ids_to_delete, 0, ServerError)
             ELSE Saved((routes \ ids_to_delete) \cup {new_route}, new_id, "")

NoSave == [call |-> "none", user_id |-> "", route_id |-> 0, error |-> ""]

InitRoutes ==
    /\ RoutingIdle
    /\ ServicesIdle
    /\ TowersIdle
    /\ CellsIdle
    /\ UsersIdle
    /\ srNow = 0
    /\ srRoutes = {}
    /\ srInserted = 0
    /\ srLast = NoSave

OutsideRoutes ==
    <<flowVars, outcome, httpResponse, selVars, svcVars, towerVars, cellVars, userVars>>

\* Time passes between two calls.
ClockAdvances ==
    /\ srNow < MaxClock
    /\ srNow' = srNow + 1
    /\ srLast' = NoSave
    /\ UNCHANGED <<OutsideRoutes, srRoutes, srInserted>>

SaveRoute(user_id, fault, low) ==
    LET new_id == srInserted + 1
        saved == save_route(srRoutes, user_id, srNow, new_id, fault, low)
    IN  /\ srInserted < MaxSaves
        /\ srRoutes' = saved.routes
        /\ srInserted' = IF saved.error = "" THEN new_id ELSE srInserted
        /\ srLast' = [call |-> "save_route", user_id |-> user_id,
                      route_id |-> saved.route_id, error |-> saved.error]
        /\ UNCHANGED <<OutsideRoutes, srNow>>

NextRoutes ==
    \/ ClockAdvances
    \/ \E user_id \in UserIds, fault \in Faults, low \in BOOLEAN :
          SaveRoute(user_id, fault, low)

SpecRoutes == InitRoutes /\ [][NextRoutes]_vars

\* ================================================================== claims
Selected == selPc = "selected" /\ inRoutes # <<>>

Entries == {selScored[i] : i \in DOMAIN selScored}

ErrorCodes == {"Error", "Timeout", "PointNotFound", "NoRoute"}

\* C1, the part about SelectOptimized alone (SpecSelect): the fastest slot
\* holds a candidate of minimum duration.
FastestSlotMinimal ==
    Selected =>
        /\ selResult.fastest.route \in {inRoutes[i] : i \in DOMAIN inRoutes}
        /\ \A i \in DOMAIN inRoutes :
              selResult.fastest.route.duration <= inRoutes[i].duration

\* C1 (Spec): a GetRouteFastest request for which the Route Alternative
\* Provider gave candidates returns one route, and its duration is at most
\* that of every candidate.
C1_FastestReturned ==
    (pc = "done" /\ req.type = "fastest" /\ altResult.code = "Ok") =>
        /\ outcome.kind = "return"
        /\ outcome.code = "Ok"
        /\ Len(outcome.routes) = 1
        /\ \A i \in DOMAIN altResult.routes :
              outcome.routes[1].duration <= altResult.routes[i].duration

\* C2 (Spec): a finished GetRoute* request whose provider answered Ok with
\* candidates returns a success holding exactly one of the candidates and the
\* requested optimisation type; every other finished request returns a typed
\* error; none raises.
C2_TypedResult ==
    pc = "done" =>
        /\ outcome.kind = "return"
        /\ IF altResult.code = "Ok"
           THEN /\ outcome.code = "Ok"
                /\ Len(outcome.routes) = 1
                /\ outcome.routes[1] \in
                      {altResult.routes[i] : i \in DOMAIN altResult.routes}
                /\ outcome.optimization_type = req.type
           ELSE outcome.code \in ErrorCodes

\* The slot a criterion ends with, given its best candidate, its ranking and
\* the indices chosen before it.
Resolved(slot, best, ranking, chosen) ==
    IF best.index \notin chosen THEN slot = best
    ELSE IF \A k \in DOMAIN ranking : ranking[k].index \in chosen THEN slot = best
    ELSE \E k \in DOMAIN ranking :
            /\ slot = ranking[k]
            /\ ranking[k].index \notin chosen
            /\ \A j \in 1..(k - 1) : ranking[j].index \in chosen

\* C3 (SpecSelect): diversity is resolved in the order fastest, cell_coverage,
\* balanced: fastest stays the best by duration; cell_coverage and balanced
\* keep their best candidate unless its index is already chosen, take the
\* first candidate of their ranking with a free index otherwise, and keep the
\* duplicate when no index is free.
C3_DiversityOrder ==
    Selected =>
        /\ selFinal.fastest = selBest.fastest
        /\ Resolved(selFinal.cell_coverage, selBest.cell_coverage,
                    routes_sorted_by_signal(selScored), {selFinal.fastest.index})
        /\ Resolved(selFinal.balanced, selBest.balanced,
                    routes_sorted_by_balanced(selScored),
                    {selFinal.fastest.index, selFinal.cell_coverage.index})

\* Both later slots had to move off a candidate chosen before them.
C3_Witness ==
    /\ Selected
    /\ Len(inRoutes) = 3
    /\ selBest.cell_coverage.index = selBest.fastest.index
    /\ selFinal.cell_coverage.index # selBest.cell_coverage.index
    /\ selBest.balanced.index \in {selFinal.fastest.index, selFinal.cell_coverage.index}
    /\ selFinal.balanced.index \notin {selFinal.fastest.index, selFinal.cell_coverage.index}

AllIdentical ==
    \A a, b \in Entries : a.duration = b.duration /\ a.avg_signal = b.avg_signal

\* C4 (SpecSelect): with at least 3 candidates that are not all identical in
\* duration and signal, the three slots do not all hold the same index.
C4_NotAllSame ==
    (Selected /\ Len(inRoutes) >= 3 /\ ~AllIdentical) =>
        ~(/\ selFinal.fastest.index = selFinal.cell_coverage.index
          /\ selFinal.cell_coverage.index = selFinal.balanced.index)

\* One candidate is the best by all three criteria, and the slots still differ.
C4_Witness ==
    /\ Selected
    /\ Len(inRoutes) >= 3
    /\ ~AllIdentical
    /\ selBest.fastest.index = selBest.cell_coverage.index
    /\ selBest.cell_coverage.index = selBest.balanced.index
    /\ selFinal.fastest.index # selFinal.cell_coverage.index

\* C5 (SpecSelect): before diversity the cell_coverage choice is a candidate
\* whose average signal (the sum of its towers' signals over their number,
\* -120 without towers) is the maximum, and whose tower count is the maximum
\* among the candidates with that average.
C5_CellCoverageBest ==
    Selected =>
        /\ selBest.cell_coverage \in Entries
        /\ \A e \in Entries :
              /\ e.tower_count = Len(e.towers)
              /\ e.avg_signal * e.tower_count = SumSignals(e.towers) * SigScale
              /\ e.tower_count = 0 => e.avg_signal = DefaultSignal * SigScale
              /\ selBest.cell_coverage.avg_signal >= e.avg_signal
              /\ e.avg_signal = selBest.cell_coverage.avg_signal
                    => selBest.cell_coverage.tower_count >= e.tower_count

\* Two candidates tie on the best average signal and the later one, with more
\* towers, is chosen.
C5_Witness ==
    /\ Selected
    /\ \E a, b \in Entries :
          /\ a.index < b.index
          /\ a.avg_signal = b.avg_signal
          /\ a.tower_count < b.tower_count
          /\ selBest.cell_coverage = b

\* C6 (SpecSelect): both ranges are floored at 1; every candidate's normalised
\* duration and signal lie in [0, 1], a candidate of minimum duration having
\* normalised duration 1; the balanced score is half the one plus half the
\* other; before diversity the balanced choice has the maximum balanced score.
C6_Normalised ==
    Selected =>
        LET dr == duration_range(selScored)
            sr == signal_range(selScored)
        IN  /\ dr >= DurationUnitsPerSecond
            /\ sr >= SigScale
            /\ \A e \in Entries :
                  /\ 0 <= e.norm_duration /\ e.norm_duration <= dr
                  /\ 0 <= e.norm_signal /\ e.norm_signal <= sr
                  /\ (\A o \in Entries : e.duration <= o.duration)
                        => e.norm_duration = dr
                  /\ e.balanced_score = e.norm_duration * sr + e.norm_signal * dr
                  /\ selBest.balanced.balanced_score >= e.balanced_score
            /\ selBest.balanced \in Entries

\* Durations less than a second apart (the floor decides), signals that
\* differ, and a balanced choice that is neither the first candidate nor the
\* fastest.
C6_Witness ==
    /\ Selected
    /\ \E a, b \in Entries :
          /\ a.duration < b.duration
          /\ b.duration - a.duration < DurationUnitsPerSecond
          /\ 0 < b.norm_duration
          /\ a.avg_signal < b.avg_signal
    /\ \A e \in Entries : e.duration - selBest.fastest.duration < DurationUnitsPerSecond
    /\ selBest.balanced.index # 0
    /\ selBest.balanced.index # selBest.fastest.index

EmptySelectionReturned ==
    (selPc = "selected" /\ inRoutes = <<>>) => selResult = EmptySelection

PrimaryAnswered == pc \in {"osrm", "done"}

Count(s, x) == Cardinality({i \in DOMAIN s : s[i] = x})

\* C8 (Spec): once the primary provider has failed by timing out, by an error
\* (an error result, or a request that failed), or by any failure on a route
\* longer than 400 km, the secondary provider is tried; it is called at most
\* once and only after the primary.
C8_FallbackTried ==
    /\ Count(calls, "osrm") <= 1
    /\ \A i \in DOMAIN calls : calls[i] = "osrm" => (i > 1 /\ calls[1] = "graphhopper")
    /\ (/\ PrimaryAnswered
        /\ ghResult.code # "Ok"
        /\ \/ ghResult.code = "Timeout"
           \/ ghResult.code = "Error"
           \/ ghResult.kind = "raise"
           \/ req.distance_km > LONG_ROUTE_THRESHOLD_KM)
       => Count(calls, "osrm") = 1

\* C9 (Spec): when the primary provider failed and the secondary was tried and
\* failed too, GetAlternatives returns the primary's result, code and message.
C9_PrimaryErrorSurfaced ==
    (/\ pc = "done"
     /\ Count(calls, "osrm") = 1
     /\ ghResult.code # "Ok"
     /\ osrmResult.code # "Ok")
    => (altResult = ghResult /\ altResult.code # "Ok")

\* Both providers failed with results that differ.
C9_Witness ==
    /\ pc = "done"
    /\ Count(calls, "osrm") = 1
    /\ ghResult.code = "Timeout"
    /\ osrmResult.code = "NoRoute"
    /\ altResult.message = "Routing service request timed out."

InputErrorsBadRequest ==
    (pc = "done" /\ outcome.kind = "return"
        /\ outcome.code \in {"PointNotFound", "NoRoute"}) => httpResponse.status = 400

NoTowerInRange == \A i \in DOMAIN sigTowers : ~in_range(sigTowers[i])

\* C20 (SpecSignal): for every tower list, the empty one included, in which
\* no tower lies within its range of the point, EstimateSignal returns
\* exactly -100 dBm.
C20_NoTowerInRange ==
    (sigPc = "done" /\ NoTowerInRange) => sigResult = Fraction(-100, 1)

\* C20, for the lists that hold at least one tower.
OutOfRangeVeryPoor ==
    (sigPc = "done" /\ NoTowerInRange /\ sigTowers # <<>>)
        => sigResult = Fraction(-100, 1)

\* The nodes a directed walk from the nodes of seen can reach.
RECURSIVE ReachableFrom(_, _)
ReachableFrom(graph, seen) ==
    CHOOSE all \in {IF more = seen THEN seen ELSE ReachableFrom(graph, more) :
                       more \in {seen \cup {e.v : e \in {x \in graph.edges : x.u \in seen}}}} :
        TRUE

EndReachable == djEnd \in ReachableFrom(djGraph, {djStart})

\* A graph as osmnx builds it: a MultiDiGraph whose node identifiers are
\* positive numbers.
OsmGraph(graph) == graph.multigraph /\ \A n \in graph.nodes : Truthy(n)

\* The least length of an edge from u to v.
ShortestEdge(graph, u, v) ==
    LET lengths == {e.length : e \in {x \in graph.edges : x.u = u /\ x.v = v}}
    IN  CHOOSE l \in lengths : \A m \in lengths : l <= m

\* One round of Bellman-Ford on the least lengths to one node known so far.
ShorterLengths(graph, least) ==
    [n \in graph.nodes |->
        LET via == {ShortestEdge(graph, n, m) + least[m] :
                       m \in {x \in neighbors(graph, n) : least[x] < Infinity}}
                      \cup {least[n]}
        IN  CHOOSE l \in via : \A o \in via : l <= o]

\* The least total length of a walk from each node to one node; Infinity
\* where there is none.
RECURSIVE LeastLengths(_, _)
LeastLengths(graph, least) ==
    CHOOSE final \in {IF next = least THEN least ELSE LeastLengths(graph, next) :
                         next \in {ShorterLengths(graph, least)}} :
        TRUE

ShortestLength(graph, from_node, to_node) ==
    LeastLengths(graph, [n \in graph.nodes |->
                            IF n = to_node THEN 0 ELSE Infinity])[from_node]

IsPath(graph, path, from_node, to_node) ==
    /\ path # <<>>
    /\ path[1] = from_node
    /\ path[Len(path)] = to_node
    /\ \A k \in 1..(Len(path) - 1) : path[k + 1] \in neighbors(graph, path[k])

RECURSIVE PathLength(_, _)
PathLength(graph, path) ==
    IF Len(path) < 2 THEN 0
    ELSE ShortestEdge(graph, path[1], path[2]) + PathLength(graph, Tail(path))

ShortestPathReturned ==
    /\ djResult.found
    /\ IsPath(djGraph, djResult.path, djStart, djEnd)
    /\ PathLength(djGraph, djResult.path) = ShortestLength(djGraph, djStart, djEnd)
    /\ djResult.details.distance = ShortestLength(djGraph, djStart, djEnd)

\* C12 (SpecPath): with signalWeight 0 (given, or forced by an empty tower
\* list), for every graph and every end node reachable from the start node,
\* FindPath returns a path from start to end whose total length is the least
\* total length of any such path.
C12_ShortestAtWeightZero ==
    (djPc = "done" /\ effective_signal_weight(djSetting) = 0 /\ EndReachable)
        => ShortestPathReturned

\* C12, for the graphs osmnx builds.
ShortestOnRoadGraphs ==
    (djPc = "done" /\ effective_signal_weight(djSetting) = 0 /\ EndReachable
        /\ OsmGraph(djGraph)) => ShortestPathReturned

\* The shortest path has more edges than another path, and a stale entry of
\* the queue was skipped on the way.
ShortestOnRoadGraphsWitness ==
    /\ djPc = "done"
    /\ effective_signal_weight(djSetting) = 0
    /\ OsmGraph(djGraph)
    /\ djResult.found
    /\ Len(djResult.path) = 3
    /\ djEnd \in neighbors(djGraph, djStart)
    /\ djResult.details.distance < ShortestEdge(djGraph, djStart, djEnd)

PathOrNotFound ==
    /\ djResult.found <=> EndReachable
    /\ djResult.found =>
          /\ IsPath(djGraph, djResult.path, djStart, djEnd)
          /\ djPopped = [node |-> djEnd, stale |-> FALSE]
    /\ ~djResult.found =>
          /\ djResult = NotFound
          /\ djPq = {}
          /\ djEnd \notin djVisited

\* C13 (SpecPath): FindPath returns a path, on popping the end node, if and
\* only if the end node is reachable from the start node; it returns
\* NotFound, no path and empty statistics, exactly when the queue empties
\* without the end node having been popped.
C13_PathIffReachable ==
    djPc = "done" => PathOrNotFound

\* C13, for the graphs osmnx builds.
PathIffReachableOnRoadGraphs ==
    (djPc = "done" /\ OsmGraph(djGraph)) => PathOrNotFound

\* A stale entry is popped and skipped while the search runs.
StaleEntrySkipped ==
    djPc = "running" /\ djPopped.stale

\* ------------------------------------------------ claims of SpecGraph
Fetching(t) == rnPc[t] = "fetching"

\* The area of a box in millionths of a square degree, for boxes whose sides
\* are whole thousandths of a degree.
BoxArea(box) ==
    ((box.max_lat - box.min_lat) \div 100) * ((box.max_lng - box.min_lng) \div 100)

TenthOfSquareDegree == 100000

OneDegreeBox == Box(4200000, -7200000, 4300000, -7100000)

\* C15 (SpecGraph): no fetch is issued for a box of more than 0.1 square
\* degrees; a larger request is narrowed to a corridor, again and again if
\* needed, before the first fetch, and the narrowing ends.
C15_NoFetchOfLargeBox ==
    \A t \in Threads :
        /\ Fetching(t) => BoxArea(rnBox[t]) <= TenthOfSquareDegree
        /\ rnPrevFetch[t] # NoFetch => BoxArea(rnPrevFetch[t].box) <= TenthOfSquareDegree

\* The first fetch of a request for the 1 by 1 degree box is in flight: the
\* box was narrowed twice, to 0.51 and to 0.265 degrees a side.
LargeBoxNarrowedTwice ==
    \E t \in Threads :
        /\ Fetching(t)
        /\ rnRequested[t] = OneDegreeBox
        /\ BoxArea(rnRequested[t]) > TenthOfSquareDegree
        /\ rnFetchCount[t] = 1
        /\ rnDepth[t] = 2
        /\ rnBox[t] = Box(4236750, -7163250, 4263250, -7136750)

Side(box) == <<box.max_lat - box.min_lat, box.max_lng - box.min_lng>>

\* The sides of box are 40% of the sides of prev, to a unit.
ShrunkToFortyPercent(box, prev) ==
    \A i \in {1, 2} :
        /\ Side(box)[i] < Side(prev)[i]
        /\ 10 * Side(box)[i] - 4 * Side(prev)[i] \in -10..10

RetriedAfterFailure(t) ==
    /\ Fetching(t)
    /\ rnPrevFetch[t] # NoFetch
    /\ rnPrevFetch[t].ended \in {"timeout", "connection_error"}

\* C16 (SpecGraph): a request that misses the cache makes at most 3 fetch
\* attempts, whatever the failures, and each retry after a timeout or a
\* connection error uses a box shrunk to about 40% and a larger timeout
\* than the attempt before it.
C16_ThreeShrinkingAttempts ==
    \A t \in Threads :
        /\ rnFetchCount[t] <= max_retries
        /\ RetriedAfterFailure(t) =>
              /\ ShrunkToFortyPercent(rnBox[t], rnPrevFetch[t].box)
              /\ rnTimeout[t] > rnPrevFetch[t].timeout

\* C16, what one frame of get_road_network keeps to: at most 3 attempts of
\* its own, the timeout raised by 30 s after a timeout or an empty graph,
\* and the box shrunk to 40% when it calls itself.
AttemptsOfFrameBounded ==
    \A t \in Threads :
        Fetching(t) =>
            /\ rnRetry[t] < max_retries
            /\ rnTimeout[t] <= InitialTimeout + (max_retries - 1) * TimeoutStep
            /\ (rnPrevFetch[t] # NoFetch /\ rnRetry[t] > 0
                    /\ rnPrevFetch[t].ended \in {"timeout", "no_edges"})
                  => rnTimeout[t] = rnPrevFetch[t].timeout + TimeoutStep
            /\ (rnPrevFetch[t] # NoFetch /\ rnRetry[t] = 0)
                  => /\ rnPrevFetch[t].ended = "timeout"
                     /\ ShrunkToFortyPercent(rnBox[t], rnPrevFetch[t].box)

\* A fourth fetch of one request is in flight.
FourthFetch ==
    \E t \in Threads : Fetching(t) /\ rnFetchCount[t] = max_retries + 1

\* The retry after a first timeout asks for the same box again.
SameBoxAfterTimeout ==
    \E t \in Threads :
        /\ RetriedAfterFailure(t)
        /\ rnPrevFetch[t].ended = "timeout"
        /\ rnBox[t] = rnPrevFetch[t].box

\* The retry after a connection error has the timeout of the attempt before.
SameTimeoutAfterConnectionError ==
    \E t \in Threads :
        /\ RetriedAfterFailure(t)
        /\ rnPrevFetch[t].ended = "connection_error"
        /\ rnTimeout[t] = rnPrevFetch[t].timeout

\* C18 (SpecGraph): a call of get_road_network returns a fetched graph, a
\* cached graph or the fallback grid even if every request times out; it
\* does not retry or call itself without bound (here: its recursion stays
\* below the depth at which the interpreter gives up).
C18_ReturnsWithinBounds ==
    \A t \in Threads :
        /\ rnPc[t] # "idle" => rnDepth[t] < RecursionLimit
        /\ rnPc[t] = "done" => rnResult[t].how \in {"fetched", "cached", "grid"}

\* C18, for a call that ends before its recursion is that deep: it returns
\* a fetched graph, a cached graph or the grid.
ReturnsGraphBelowLimit ==
    [][\A t \in Threads :
          (rnPc[t] # "done" /\ rnPc'[t] = "done" /\ rnDepth[t] < RecursionLimit)
              => \/ /\ rnResult'[t].how \in {"fetched", "cached"}
                    /\ rnResult'[t].graph.kind = "osm"
                 \/ /\ rnResult'[t].how = "grid"
                    /\ rnResult'[t].graph.kind = "grid"]_vars

\* Every fetch of a request timed out, and the call is as deep as the
\* interpreter lets it go.
TimeoutsToTheLimit ==
    \E t \in Threads :
        /\ Fetching(t)
        /\ rnDepth[t] = RecursionLimit
        /\ rnPrevFetch[t].ended = "timeout"

\* The call ended in a RecursionError.
EndedInRecursionError ==
    \E t \in Threads : rnPc[t] = "done" /\ rnResult[t].how = "RecursionError"

WritesOf(key) == {i \in DOMAIN cacheWrites : cacheWrites[i].key = key}

\* C19 (SpecGraph): of the requests that miss the cache on one key at the
\* same time at most one fetches it, and the entry of a key is inserted
\* once and not overwritten by another graph.
C19_OneFetchPerKey ==
    /\ \A t, u \in Threads :
          (t # u /\ Fetching(t) /\ Fetching(u))
              => cache_key(rnBox[t]) # cache_key(rnBox[u])
    /\ \A i, j \in DOMAIN cacheWrites :
          cacheWrites[i].key = cacheWrites[j].key => i = j

\* C19, what the dictionary itself gives: the entry of a key is the graph
\* written to it last, and no key loses its entry.
LastWriteStored ==
    /\ DOMAIN road_network_cache = {cacheWrites[i].key : i \in DOMAIN cacheWrites}
    /\ \A i \in DOMAIN cacheWrites :
          (\A j \in WritesOf(cacheWrites[i].key) : j <= i)
              => road_network_cache[cacheWrites[i].key] = cacheWrites[i].graph

\* Two requests are fetching the same key at the same time.
TwoFetchesOfOneKey ==
    \E t, u \in Threads :
        /\ t # u
        /\ Fetching(t)
        /\ Fetching(u)
        /\ cache_key(rnBox[t]) = cache_key(rnBox[u])

\* The graph one request stored and returned is no longer in the cache: the
\* other request has put its own in its place.
EntryOverwritten ==
    \E t \in Threads :
        /\ rnPc[t] = "done"
        /\ rnResult[t].how = "fetched"
        /\ \E i \in DOMAIN cacheWrites :
              /\ cacheWrites[i].graph = rnResult[t].graph
              /\ road_network_cache[cacheWrites[i].key] # rnResult[t].graph

\* C14 (SpecGraph): once a graph is stored under a key, every later call
\* whose narrowed box has that key returns that graph without a fetch, and
\* no entry is ever evicted or replaced.
C14_StoredGraphKept ==
    /\ \A t \in Threads :
          (rnPc[t] = "done" /\ rnResult[t].how = "cached")
              => \E i \in DOMAIN cacheWrites :
                    /\ cacheWrites[i].graph = rnResult[t].graph
                    /\ WritesOf(cacheWrites[i].key) = {i}
    /\ \A i \in DOMAIN cacheWrites :
          /\ cacheWrites[i].key \in DOMAIN road_network_cache
          /\ road_network_cache[cacheWrites[i].key] = cacheWrites[i].graph

\* C14, the part about the hit: a call that finds the key of its narrowed
\* box in the cache returns the graph stored there, fetches nothing and
\* leaves the cache as it is.
HitReturnsStoredGraph ==
    [][\A t \in Threads :
          (rnPc[t] = "idle" /\ rnPc'[t] # "idle"
              /\ cache_key(narrowed(rnRequested'[t])) \in DOMAIN road_network_cache)
          => /\ rnPc'[t] = "done"
             /\ rnResult'[t] =
                   RoadNetwork("cached",
                               road_network_cache[cache_key(narrowed(rnRequested'[t]))])
             /\ rnFetchCount'[t] = 0
             /\ UNCHANGED cacheVars]_vars

\* C14, the part about eviction: no key ever leaves the cache.
NoEntryEvicted ==
    [][DOMAIN road_network_cache \subseteq DOMAIN road_network_cache']_vars

\* A request for a box whose corners are off the lattice of the keys was
\* served from the cache without a fetch.
ServedFromCache ==
    \E t \in Threads :
        /\ rnPc[t] = "done"
        /\ rnResult[t].how = "cached"
        /\ rnFetchCount[t] = 0
        /\ cache_key(rnRequested[t]) # <<rnRequested[t].min_lat, rnRequested[t].min_lng,
                                         rnRequested[t].max_lat, rnRequested[t].max_lng>>

GridReturned(t) == rnPc[t] = "done" /\ rnResult[t].how = "grid"

\* The nodes of the 11 by 11 grid.
GridNodeSet == {GridNode(i, j) : i, j \in 0..grid_size}

\* C17 (SpecGraph): when every fetch of a request fails, get_road_network
\* returns the grid, laid over the box that was requested, and FindPath
\* between any two nodes of it produces a path.
C17_GridOverRequestedBox ==
    \A t \in Threads :
        GridReturned(t) =>
            /\ rnResult[t].graph = GridGraph(rnRequested[t])
            /\ rnPath[t] # Running
                  => /\ rnPath[t].found
                     /\ rnPath[t].path[1] \in GridNodeSet
                     /\ rnPath[t].path[Len(rnPath[t].path)] \in GridNodeSet

\* C17, for a request of at most 0.1 square degrees whose fetches failed
\* without two timeouts in one frame: the grid lies over the requested box.
\* (Such a request makes three fetches of its own box.)
GridOverSmallRequestedBox ==
    \A t \in Threads :
        (GridReturned(t) /\ rnFetchCount[t] = max_retries
            /\ ~area_too_large(rnRequested[t]))
                => rnResult[t].graph = GridGraph(rnRequested[t])

\* The grid lies over a box that is not the requested one.
GridOverOtherBox ==
    \E t \in Threads :
        /\ GridReturned(t)
        /\ rnResult[t].graph.box # rnRequested[t]

\* No path was found between two different nodes of the grid.
NoPathOnGrid ==
    \E t \in Threads :
        /\ GridReturned(t)
        /\ rnPath[t] = NotFound

\* The one path found on the grid: from a node to itself.
TrivialPathOnGrid ==
    \E t \in Threads :
        /\ GridReturned(t)
        /\ rnPath[t] # Running
        /\ rnPath[t].found
        /\ Len(rnPath[t].path) = 1

\* ----------------------------------------------- claims of SpecSignal, C21
\* p / q < r / s for naturals p, r and positive q, s, without a product.
RECURSIVE LessRatio(_, _, _, _)
LessRatio(p, q, r, s) ==
    IF p \div q # r \div s THEN p \div q < r \div s
    ELSE IF r % s = 0 THEN FALSE
    ELSE IF p % q = 0 THEN TRUE
    ELSE LessRatio(s, r % s, q, p % q)

\* a >= b for two signal strengths, which are never positive.
SignalAtLeast(a, b) == ~LessRatio(-b.num, b.den, -a.num, a.den)

\* The towers as seen from a point that is farther from tower i.
FartherFrom(towers, i, distance) ==
    [towers EXCEPT ![i] = [@ EXCEPT !.distance = distance]]

FartherPoints(i) == {d \in SignalDistances : d > sigTowers[i].distance}

\* C21 (SpecSignal): with the other towers held fixed, the estimate does not
\* rise with the distance from one tower: the point closer to the tower gets
\* at least the signal of the farther point, also when the farther point is
\* out of the tower's range.
C21_MonotoneInDistance ==
    sigPc = "done" =>
        \A i \in DOMAIN sigTowers : \A d \in FartherPoints(i) :
            SignalAtLeast(sigResult,
                          calculate_signal_strength(FartherFrom(sigTowers, i, d)))

\* C21, for a tower of a signal above -100 dBm that is the only one in
\* range of both points, or of the closer point alone.
MonotoneForLoneGoodTower ==
    sigPc = "done" =>
        \A i \in DOMAIN sigTowers : \A d \in FartherPoints(i) :
            (/\ tower_signal(sigTowers[i]) > -100
             /\ \A j \in DOMAIN sigTowers : j # i => ~in_range(sigTowers[j]))
                => SignalAtLeast(sigResult,
                                 calculate_signal_strength(FartherFrom(sigTowers, i, d)))

\* A weak tower alone: in range of it the estimate is its -110 dBm, out of
\* range, farther away, it is -100 dBm.
WeakTowerLeftBehind ==
    /\ sigPc = "done"
    /\ Len(sigTowers) = 1
    /\ in_range(sigTowers[1])
    /\ sigResult = Fraction(-110 * signal_weight_of(sigTowers[1]),
                            signal_weight_of(sigTowers[1]))
    /\ \E d \in FartherPoints(1) :
          calculate_signal_strength(FartherFrom(sigTowers, 1, d)) = Fraction(-100, 1)

\* A weak tower next to a good one: the estimate rises with the distance
\* from the weak tower while both stay in range.
AverageRisesAwayFromWeakTower ==
    /\ sigPc = "done"
    /\ Len(sigTowers) = 2
    /\ \E d \in FartherPoints(1) :
          /\ in_range(FartherFrom(sigTowers, 1, d)[1])
          /\ in_range(sigTowers[2])
          /\ ~SignalAtLeast(sigResult,
                            calculate_signal_strength(FartherFrom(sigTowers, 1, d)))

\* ------------------------------------------------ claims of SpecSelect, C26
\* C26 (SpecSelect): given at least 3 candidates the three slots hold three
\* different candidate indices, and given exactly 2 the fastest and the
\* cell_coverage slot differ, whatever the durations and signals, ties of
\* all candidates included.
C26_SlotsPairwiseDifferent ==
    Selected =>
        /\ Len(inRoutes) >= 2 => selFinal.fastest.index # selFinal.cell_coverage.index
        /\ Len(inRoutes) >= 3 =>
              /\ selFinal.balanced.index # selFinal.fastest.index
              /\ selFinal.balanced.index # selFinal.cell_coverage.index

\* Three candidates that tie in duration and in signal: every ranking begins
\* with the first of them, and the slots hold the three of them.
AllTiedAllDifferent ==
    /\ Selected
    /\ Len(inRoutes) = 3
    /\ AllIdentical
    /\ selBest.fastest.index = selBest.cell_coverage.index
    /\ selBest.fastest.index = selBest.balanced.index
    /\ {selFinal.fastest.index, selFinal.cell_coverage.index,
        selFinal.balanced.index} = {e.index : e \in Entries}

\* -------------------------------------------------- claims of SpecPath, C27
NoNodeTwice(path) ==
    \A i, j \in DOMAIN path : path[i] = path[j] => i = j

WellFormedPath ==
    /\ IsPath(djGraph, djResult.path, djStart, djEnd)
    /\ NoNodeTwice(djResult.path)
    /\ djStart = djEnd => djResult.path = <<djStart>>

\* C27 (SpecPath): every path FindPath returns begins with the start node,
\* ends with the end node, repeats no node, and goes along edges of the
\* graph in their direction, whatever the node identifiers are, falsy ones
\* such as 0 included; for start = end it is the single node.
C27_WellFormedPath ==
    (djPc = "done" /\ djResult.found) => WellFormedPath

\* C27, for graphs whose node identifiers are all truthy, as the positive
\* numbers of osmnx and the tuples of the grid are.
WellFormedOnTruthyNodes ==
    (djPc = "done" /\ djResult.found /\ \A n \in djGraph.nodes : Truthy(n))
        => WellFormedPath

\* The path returned ends where it should, and does not begin with the start
\* node 0, at which the reconstruction stopped.
StartNodeZeroDropped ==
    /\ djPc = "done"
    /\ djResult.found
    /\ djStart = 0
    /\ djEnd # 0
    /\ djResult.path # <<>>
    /\ djResult.path[Len(djResult.path)] = djEnd
    /\ djResult.path[1] # djStart

\* The end node 0 was popped and the path returned is empty.
EmptyPathToNodeZero ==
    /\ djPc = "done"
    /\ djResult.found
    /\ djEnd = 0
    /\ djPopped.node = 0
    /\ djResult.path = <<>>

\* ------------------------------------------- claims of SpecTowers, C22, C23
\* What the geometric filter retained for the route, in its order.
Retained == find_towers_near_route_shapely(twRoute, twArea)

ReturnedTowers == {twResult[i] : i \in DOMAIN twResult}

\* C22 (SpecTowers): every tower find_towers_along_route returns is one the
\* geometric filter retained as within max_distance_meters of the route,
\* after down-sampling too, and empty route coordinates or an empty tower
\* list give an empty result.
C22_OnlyRetainedReturned ==
    twPc = "done" =>
        /\ \A t \in ReturnedTowers : t.id \in twRoute.near
        /\ ReturnedTowers \subseteq {Retained[i] : i \in DOMAIN Retained}
        /\ (~twRoute.coordinates \/ twArea = <<>>) => twResult = <<>>

\* More than 200 towers were retained and sampled, and the area holds
\* towers that were not retained.
SampledFromRetained ==
    /\ twPc = "done"
    /\ twRoute.coordinates
    /\ Len(Retained) > MAX_TOWERS_ALONG_ROUTE
    /\ Len(Retained) < Len(twArea)
    /\ Len(twResult) = MAX_TOWERS_ALONG_ROUTE

\* The place of a returned tower in the retained list.
PlaceOf(i) == CHOOSE j \in DOMAIN Retained : Retained[j] = twResult[i]

\* floor(i * n / 200), counting places from 1.
EvenPlace(i) == (((i - 1) * Len(Retained)) \div MAX_TOWERS_ALONG_ROUTE) + 1

Unsampled ==
    (twRoute.coordinates /\ Len(Retained) <= MAX_TOWERS_ALONG_ROUTE)
        => twResult = Retained

\* C23 (SpecTowers), as stated: when more than 200 towers are retained,
\* exactly 200 are returned, the towers at the indices floor(i * n / 200)
\* for i = 0..199 of the position-sorted list, in that order; when 200 or
\* fewer are retained all of them are returned unchanged.
C23_EvenlySampled ==
    twPc = "done" =>
        /\ Unsampled
        /\ (twRoute.coordinates /\ Len(Retained) > MAX_TOWERS_ALONG_ROUTE) =>
              /\ Len(twResult) = MAX_TOWERS_ALONG_ROUTE
              /\ \A i \in DOMAIN twResult : twResult[i] = Retained[EvenPlace(i)]

\* C23, amended: the 200 towers returned are at strictly increasing indices
\* of the position-sorted list, the first of them 0, each floor(i * n / 200)
\* or one less (the index is computed in floating point), so no tower is
\* returned twice and the order is kept.
SampledNearEvenPlaces ==
    twPc = "done" =>
        /\ Unsampled
        /\ (twRoute.coordinates /\ Len(Retained) > MAX_TOWERS_ALONG_ROUTE) =>
              /\ Len(twResult) = MAX_TOWERS_ALONG_ROUTE
              /\ ReturnedTowers \subseteq {Retained[j] : j \in DOMAIN Retained}
              /\ PlaceOf(1) = 1
              /\ \A i \in DOMAIN twResult :
                    /\ PlaceOf(i) \in {EvenPlace(i) - 1, EvenPlace(i)}
                    /\ i > 1 => PlaceOf(i - 1) < PlaceOf(i)

\* Of 205 retained towers the one at index 122 is returned for i = 120,
\* where floor(120 * 205 / 200) is 123.
SampledBelowEvenPlace ==
    /\ twPc = "done"
    /\ twRoute.coordinates
    /\ Len(Retained) = 205
    /\ Len(twResult) = MAX_TOWERS_ALONG_ROUTE
    /\ EvenPlace(121) = 124
    /\ twResult[121] = Retained[123]

\* ---------------------------------------------- claims of SpecCells, C24, C25
FileAbsent == ctFile.state = "absent"

PositiveExtent == ctBox.max_lat > ctBox.min_lat /\ ctBox.max_lng > ctBox.min_lng

MockTowersInRange ==
    /\ Len(ctResult.towers) \in MinMockTowers..MaxMockTowers
    /\ \A i \in DOMAIN ctResult.towers :
          ctResult.towers[i].averageSignal \in MinMockSignal..MaxMockSignal
    /\ ctResult.source = "mock"

\* C24 (SpecCells), as stated: when the dataset file is absent,
\* get_cell_towers returns for every bounding box between 30 and 80 towers,
\* each with averageSignal in [-115, -65], tagged 'mock'.
C24_MockTowersForEveryBox ==
    (ctPc = "done" /\ FileAbsent) => MockTowersInRange

\* C24, amended: when the dataset file is absent, get_cell_towers returns
\* between 30 and 80 towers with averageSignal in [-115, -65] for every box
\* whose latitude and longitude extents are positive, and no tower for any
\* other box; the result is tagged 'mock' in both cases.
MockTowersForBoxesWithExtent ==
    (ctPc = "done" /\ FileAbsent) =>
        IF PositiveExtent THEN MockTowersInRange
        ELSE ctResult.towers = <<>> /\ ctResult.total = 0 /\ ctResult.source = "mock"

\* The file is absent and 80 towers are generated, one at -115 dBm and one
\* at -65 dBm.
EightyMockTowers ==
    /\ ctPc = "done"
    /\ FileAbsent
    /\ PositiveExtent
    /\ Len(ctResult.towers) = MaxMockTowers
    /\ \E i, j \in DOMAIN ctResult.towers :
          /\ ctResult.towers[i].averageSignal = MinMockSignal
          /\ ctResult.towers[j].averageSignal = MaxMockSignal

\* The file is absent and the box is a single point: no tower is returned.
NoMockTowerForPointBox ==
    /\ ctPc = "done"
    /\ FileAbsent
    /\ ctBox.max_lat = ctBox.min_lat
    /\ ctResult.towers = <<>>

FromDataset(tower) ==
    /\ ctFile.state = "table"
    /\ \E k \in DOMAIN ctFile.rows : ctFile.rows[k].id = tower.id

Synthesized(tower) == tower.id[1] = "mock"

\* The dataset cannot be found, read or processed.
DatasetUnusable ==
    \/ ctFile.state # "table"
    \/ ~ctFile.has_lat
    \/ \E k \in DOMAIN ctFile.rows :
          ctFile.rows[k].range = Inf /\ InBounds(ctBox, ctFile.rows[k])

\* C25 (SpecCells): get_cell_towers never raises; whenever the dataset
\* cannot be found, read or processed the towers returned are synthesized;
\* the source tag is 'CSV' exactly when the towers returned came from the
\* dataset and 'mock' exactly when they were synthesized.
C25_NeverRaisesAndTagged ==
    ctPc = "done" =>
        LET towers == ctResult.towers
        IN  /\ ctResult.raised = ""
            /\ ctResult.source \in {"CSV", "mock"}
            /\ ctResult.total = Len(towers)
            /\ ctResult.source = "CSV" => \A i \in DOMAIN towers : FromDataset(towers[i])
            /\ ctResult.source = "mock" => \A i \in DOMAIN towers : Synthesized(towers[i])
            /\ DatasetUnusable => ctResult.source = "mock"
            /\ ctResult.source = "mock" => DatasetUnusable

\* A dataset that was read but could not be processed: synthetic towers
\* are returned, tagged 'mock'.
ProcessingFailureGivesMock ==
    /\ ctPc = "done"
    /\ ctFile.state = "table"
    /\ DatasetUnusable
    /\ ctResult.source = "mock"
    /\ Len(ctResult.towers) >= MinMockTowers

\* More than 500 rows of the dataset lie in the box: 500 of them are
\* returned, tagged 'CSV'.
DatasetTowersReturned ==
    /\ ctPc = "done"
    /\ ctResult.source = "CSV"
    /\ Len(ctResult.towers) = MAX_TOWERS_FROM_CSV

\* ---------------------------------------------- claims of SpecUsers, C28, C29
Locked == is_user_locked_out(usUser, usNow)

\* The step is a call of login_user for the registered account.
LoginStep == usLast'.call = "login" /\ usLast'.known

RejectedLoginStep == LoginStep /\ usLast'.error = "Invalid email or password"

\* While the account is locked every login fails and leaves the counter
\* and the lockout alone; a successful login clears both.
LockoutKept ==
    /\ (LoginStep /\ Locked) =>
          /\ ~usLast'.ok
          /\ usUser'.failed_login_attempts = usUser.failed_login_attempts
          /\ usUser'.lockout_until = usUser.lockout_until
    /\ (LoginStep /\ usLast'.ok) =>
          /\ usUser'.failed_login_attempts = 0
          /\ usUser'.lockout_until = NoTime

\* C28 (SpecUsers), as stated: after 7 failed login_user calls for an
\* account with no successful login in between the account is locked; while
\* it is locked every login_user call fails, also with the correct password,
\* and leaves failed_login_attempts and lockout_until unchanged; a successful
\* login resets failed_login_attempts to 0 and clears lockout_until; an
\* account is never locked with fewer than 7 failures since its last
\* successful login or password reset.
C28_LockedAfterSevenFailures ==
    [][/\ (RejectedLoginStep /\ usHistory'.failed_calls >= MAX_LOGIN_ATTEMPTS) =>
             is_user_locked_out(usUser', usNow')
       /\ LockoutKept
       /\ is_user_locked_out(usUser', usNow') =>
             usHistory'.failed_since_reset >= MAX_LOGIN_ATTEMPTS]_vars

\* C28, amended: the 7 failed calls are calls rejected for a wrong password
\* with neither a successful login nor a password reset in between; the
\* rest as stated.
LockedAfterSevenFailuresSinceReset ==
    [][/\ (RejectedLoginStep /\ usHistory'.failed_since_reset >= MAX_LOGIN_ATTEMPTS) =>
             is_user_locked_out(usUser', usNow')
       /\ LockoutKept
       /\ is_user_locked_out(usUser', usNow') =>
             usHistory'.failed_since_reset >= MAX_LOGIN_ATTEMPTS]_vars

\* The account is locked after 7 wrong passwords and a login with the
\* correct password has just been refused.
CorrectPasswordRefusedWhileLocked ==
    /\ Locked
    /\ usUser.failed_login_attempts = MAX_LOGIN_ATTEMPTS
    /\ usHistory.failed_since_reset = MAX_LOGIN_ATTEMPTS
    /\ usLast.call = "login"
    /\ usLast.correct
    /\ ~usLast.ok
    /\ usLast.status = 403

\* Seven logins were rejected since the last successful one, a password
\* reset came in between, and the account is not locked.
SevenFailuresAcrossReset ==
    /\ usHistory.failed_calls = MAX_LOGIN_ATTEMPTS
    /\ usHistory.failed_since_reset < MAX_LOGIN_ATTEMPTS
    /\ usLast.call = "login"
    /\ usLast.known
    /\ usLast.error = "Invalid email or password"
    /\ usUser.lockout_until = NoTime

ResetStep == usLast'.call = "reset"

\* C29 (SpecUsers): a reset token changes the password at most once and
\* never after its expiry; once verify_reset_token_and_update_password has
\* succeeded with a token or rejected it as expired the stored token is
\* cleared, and once a token is used, rejected as expired or replaced by a
\* new forgot_password call every later call with it fails and leaves the
\* password unchanged.
C29_TokenWorksOnce ==
    [][/\ usUser'.password # usUser.password =>
             /\ ResetStep /\ usLast'.ok
             /\ usLast'.token = usUser.password_reset_token
             /\ usLast'.token \notin usHistory.changed_by
             /\ usNow <= usUser.password_reset_expires
       /\ (ResetStep /\ usLast'.ok) => usUser'.password_reset_token = NoToken
       /\ (ResetStep /\ usLast'.known /\ usUser.password_reset_expires < usNow) =>
             ~usLast'.ok
       /\ (ResetStep /\ usLast'.known
              /\ usLast'.error = "Invalid or expired reset token.") =>
             /\ usUser.password_reset_expires < usNow
             /\ usUser'.password_reset_token = NoToken
       /\ (ResetStep /\ usLast'.token \in usHistory.retired) =>
             /\ ~usLast'.ok
             /\ usUser'.password = usUser.password
       /\ (usLast'.call = "forgot" /\ usLast'.ok) =>
             /\ usUser'.password_reset_token = usLast'.token
             /\ usUser'.password_reset_token # usUser.password_reset_token
             /\ usUser.password_reset_token # NoToken =>
                   usUser.password_reset_token \in usHistory'.retired]_vars

\* A token that has changed the password was presented again and refused.
UsedTokenRefused ==
    /\ usLast.call = "reset"
    /\ usLast.token \in usHistory.changed_by
    /\ ~usLast.ok
    /\ usLast.error = "Invalid or expired reset token."

\* A token replaced by a later forgot_password call was presented and
\* refused, the later token still stored.
ReplacedTokenRefused ==
    /\ usLast.call = "reset"
    /\ usLast.token \in usHistory.retired \ usHistory.changed_by
    /\ usUser.password_reset_token \notin {NoToken, usLast.token}
    /\ ~usLast.ok

\* A token presented after its expiry was refused and cleared.
ExpiredTokenCleared ==
    /\ usLast.call = "reset"
    /\ usLast.token \in usHistory.retired \ usHistory.changed_by
    /\ usUser.password_reset_token = NoToken
    /\ usIssued = usLast.token
    /\ ~usLast.ok

\* ------------------------------------------------ claims of SpecRoutes, C30
SaveStep == srLast'.call = "save_route"

DeletedInStep == srRoutes \ srRoutes'

\* C30 (SpecRoutes): once a save_route call has returned every user has at
\* most MAX_SAVED_ROUTES (3) saved routes; the routes a call deletes belong
\* to the user of the call, are deleted only when that user is at the limit,
\* and are no newer than any route of the user that is kept; the new route
\* is inserted after them, and no route of another user is deleted.
C30_AtMostThreeSavedRoutes ==
    [][/\ \A user_id \in UserIds :
             Cardinality(RoutesOf(srRoutes', user_id)) <= MAX_SAVED_ROUTES
       /\ SaveStep =>
             /\ \A old \in DeletedInStep : old.user_id = srLast'.user_id
             /\ \A user_id \in UserIds \ {srLast'.user_id} :
                   RoutesOf(srRoutes', user_id) = RoutesOf(srRoutes, user_id)
             /\ DeletedInStep # {} =>
                   Cardinality(RoutesOf(srRoutes, srLast'.user_id)) >= MAX_SAVED_ROUTES
             /\ \A old \in DeletedInStep, kept \in RoutesOf(srRoutes', srLast'.user_id) :
                   old.created_at <= kept.created_at
             /\ srLast'.error = "" =>
                   /\ \E new \in srRoutes' \ srRoutes :
                         /\ srRoutes' \ srRoutes = {new}
                         /\ new.id = srLast'.route_id
                         /\ new.user_id = srLast'.user_id
                   /\ Cardinality(RoutesOf(srRoutes, srLast'.user_id)) >= MAX_SAVED_ROUTES =>
                         Cardinality(DeletedInStep) = 1
       /\ ~SaveStep => srRoutes' = srRoutes]_vars

\* A user at the limit has saved a fourth route: the first one is gone, three
\* are kept, and the routes of the other user are all there.
OldestReplacedByFourth ==
    /\ srLast.call = "save_route"
    /\ srLast.error = ""
    /\ srLast.user_id = "u1"
    /\ Cardinality(RoutesOf(srRoutes, "u1")) = MAX_SAVED_ROUTES
    /\ Cardinality(RoutesOf(srRoutes, "u2")) = 2
    /\ srInserted = 6
    /\ {route.id : route \in RoutesOf(srRoutes, "u1")} = {3, 5, 6}

====
